------------------------ MODULE ReplicationTypeProofs ------------------------
(***************************************************************************)
(* Replication's types, for any constants: with a session log and           *)
(* persistent searches, updates answered in any order, losses and crashes.  *)
(* That CSNs stay in their range and name one update each takes counting     *)
(* the updates and knowing that no CSN is used twice.                       *)
(***************************************************************************)
EXTENDS ReplicationProofs

Records  == [csn : Csns, entry : Entries, tag : ChangeTags]
Writings == [pc : {"idle", "begun", "ready", "committed", "responding", "answered"},
             entry : Entries, tag : ChangeTags, place : Places, csn : Csns,
             watched : BOOLEAN, matched : SUBSET Consumers, changed : BOOLEAN]
Sessions == [pc : {"off", "wait", "start", "log", "pick", "send", "find", "list", "search", "persist"},
             ctx : Csns, cookie : CsnOrNone, changed : BOOLEAN, present : BOOLEAN,
             at : CsnOrNone, log : SUBSET Records]
Copies   == [content : [Entries -> CsnOrNone], cookie : CsnOrNone, present : SUBSET Entries,
             refreshDone : BOOLEAN, refreshPresent : BOOLEAN]

ClockTypes ==
  /\ db \in [Entries -> [csn : Csns, place : Places]]
  /\ clock \in Csns /\ ctxcsn \in Csns /\ stored \in Csns /\ mincsn \in Csns
  /\ pending \subseteq Csns /\ marked \subseteq pending
WriterTypes ==
  /\ dirty \in BOOLEAN /\ resp \in Writers \cup {NoWriter}
  /\ slog \subseteq Records /\ wr \in [Writers -> Writings]
  /\ drops \in 0 .. MaxDrops /\ stops \in 0 .. MaxStops
SearchTypes ==
  /\ srch \in [Consumers -> Sessions]
  /\ queue \in [Consumers -> Seq(Messages)] /\ chan \in [Consumers -> Seq(Messages)]
  /\ con \in [Consumers -> Copies]
Types == ClockTypes /\ WriterTypes /\ SearchTypes

\* Updates that have no CSN yet: there is one left for each.
Coming == {w \in Writers : wr[w].pc \in {"begun", "ready"}}
Room   == clock + Cardinality(Coming) <= MaxCsn

\* A CSN belongs to one change.
Distinct(log) == \A q, r \in log : q.csn = r.csn => q = r

\* A search has picked what is behind the record it has come to.
InTurn(s) ==
  /\ Distinct(s.log)
  /\ s.pc = "pick" => \A r \in s.log : r.csn <= s.at

Numbered ==
  /\ \A w \in Writers :
       /\ wr[w].csn <= clock
       /\ wr[w].pc \in {"idle", "begun", "ready"} => wr[w].csn = 0
       /\ wr[w].pc \in {"committed", "responding"} =>
            wr[w].csn # 0 /\ \A r \in slog : r.csn # wr[w].csn
       /\ wr[w].pc = "committed" => wr[w].csn \in pending
  /\ \A w, u \in Writers : wr[w].csn = wr[u].csn /\ wr[w].csn # 0 => w = u
  /\ \A k \in pending : k # 0 /\ \E w \in Writers : wr[w].csn = k

Logs ==
  /\ \A r \in slog : r.csn <= clock
  /\ Distinct(slog) /\ \A c \in Consumers : InTurn(srch[c])

TInv == Types /\ Room /\ Numbered /\ Logs

------------------------------------------------------------------------------
(***************************************************************************)
(* Sets of records                                                         *)
(***************************************************************************)
LEMMA CsnsNat == Csns \subseteq Nat /\ 0 \in Csns /\ IsFiniteSet(Csns) /\ NoCsn \notin Csns
<1>1. IsFiniteSet(0 .. MaxCsn)
  BY FS_Interval, ReplicationAssumption
<1> QED
  BY <1>1, ReplicationAssumption DEF Csns, NoCsn

LEMMA CsnsInt == \A x \in CsnOrNone : x \in Int
  BY ReplicationAssumption DEF CsnOrNone, Csns, NoCsn

\* The greatest of some CSNs is one of them.
LEMMA MaxCsnIn == ASSUME NEW S \in SUBSET Csns, S # {} PROVE Max(S) \in S
<1>1. S \in SUBSET Nat /\ MaxCsn \in Nat /\ \A x \in S : x <= MaxCsn
  BY ReplicationAssumption DEF Csns
<1> QED
  BY <1>1, MaxIn

\* Every set of records with different CSNs is finite.
LEMMA LogFinite ==
  ASSUME NEW log \in SUBSET Records, Distinct(log)
  PROVE  IsFiniteSet(log)
<1> DEFINE f == [r \in log |-> r.csn]
<1>1. f \in Injection(log, Csns)
  BY DEF Injection, IsInjective, Records, Distinct
<1> HIDE DEF f
<1> QED
  BY <1>1, CsnsNat, FS_Injection

\* Each record has its place in the order of the CSNs, ...
LEMMA RankOnto ==
  ASSUME NEW log \in SUBSET Records, Distinct(log)
  PROVE  /\ Cardinality(log) \in Nat
         /\ \A i \in 1 .. Cardinality(log) :
              \E r \in log : Cardinality({q \in log : q.csn <= r.csn}) = i
<1> DEFINE UpTo(r) == {q \in log : q.csn <= r.csn}
           n == Cardinality(log)
           rank == [r \in log |-> Cardinality(UpTo(r))]
<1>1. IsFiniteSet(log) /\ n \in Nat
  BY LogFinite, FS_CardinalityType
<1>2. \A r \in log : r.csn \in Nat
  BY CsnsNat DEF Records
<1>3. ASSUME NEW r \in log
      PROVE  /\ IsFiniteSet(UpTo(r)) /\ rank[r] = Cardinality(UpTo(r))
             /\ Cardinality(UpTo(r)) \in 1 .. n
  <2>1. UpTo(r) \subseteq log /\ r \in UpTo(r)
    BY <1>2
  <2>2. IsFiniteSet(UpTo(r)) /\ Cardinality(UpTo(r)) \in Nat /\ Cardinality(UpTo(r)) <= n
    BY <1>1, <2>1, FS_Subset, FS_CardinalityType
  <2>3. Cardinality(UpTo(r)) # 0
    BY <2>1, <2>2, FS_EmptySet
  <2> QED
    BY <1>1, <2>2, <2>3
<1>4. ASSUME NEW q \in log, NEW r \in log, q.csn < r.csn
      PROVE  Cardinality(UpTo(q)) < Cardinality(UpTo(r))
  <2>1. UpTo(q) \cup {r} \subseteq UpTo(r) /\ r \notin UpTo(q)
    BY <1>2, <1>4
  <2>2. Cardinality(UpTo(q) \cup {r}) = Cardinality(UpTo(q)) + 1
    BY <1>3, <2>1, FS_AddElement
  <2>3. Cardinality(UpTo(q) \cup {r}) <= Cardinality(UpTo(r))
    BY <1>3, <2>1, FS_Subset
  <2>4. Cardinality(UpTo(q)) \in Nat /\ Cardinality(UpTo(r)) \in Nat
    BY <1>1, <1>3
  <2> QED
    BY <2>2, <2>3, <2>4
<1>5. rank \in Injection(log, 1 .. n)
  <2>1. rank \in [log -> 1 .. n]
    BY <1>3
  <2>2. ASSUME NEW q \in log, NEW r \in log, rank[q] = rank[r] PROVE q = r
    <3>1. Cardinality(UpTo(q)) = Cardinality(UpTo(r))
      BY <1>3, <2>2
    <3>2. ~(q.csn < r.csn) /\ ~(r.csn < q.csn)
      BY <1>1, <1>3, <1>4, <3>1
    <3> QED
      BY <1>2, <3>2 DEF Distinct
  <2> QED
    BY <2>1, <2>2 DEF Injection, IsInjective
<1>6. IsFiniteSet(1 .. n) /\ Cardinality(1 .. n) = n
  BY <1>1, FS_Interval
<1>7. rank \in Surjection(log, 1 .. n)
  BY <1>5, <1>6, FS_Injection
<1>8. \A i \in 1 .. n : \E r \in log : rank[r] = i
  BY <1>7 DEF Surjection
<1> QED
  BY <1>1, <1>3, <1>8

\* ... so the i-th of them is one of them, ...
LEMMA NthIs ==
  ASSUME NEW log \in SUBSET Records, Distinct(log), NEW i \in 1 .. Cardinality(log)
  PROVE  Nth(log, i) \in log
  BY RankOnto DEF Nth

------------------------------------------------------------------------------
(***************************************************************************)
(* Messages and consumers                                                  *)
(***************************************************************************)
LEMMA ListTyped ==
  ASSUME NEW n \in Nat, NEW list, list = [i \in 1 .. n |-> list[i]],
         \A i \in 1 .. n : list[i] \in Messages
  PROVE  list \in Seq(Messages)
<1>1. list \in [1 .. n -> Messages]
  OBVIOUS
<1> QED
  BY <1>1

LEMMA PlainMessage ==
  ASSUME NEW tag \in Tags, NEW entries \in SUBSET Entries, NEW csn \in CsnOrNone,
         NEW cookie \in CsnOrNone
  PROVE  Message(tag, entries, csn, cookie) \in Messages
  BY DEF Message, Messages

\* What a message does to a consumer keeps it one.
LEMMA ReceiveTyped ==
  ASSUME NEW k \in Copies, NEW m \in Messages
  PROVE  Receive(k, m) \in Copies
<1> USE DEF Copies
<1>0. /\ m.tag \in Tags /\ m.entries \in SUBSET Entries /\ m.csn \in CsnOrNone
      /\ m.cookie \in CsnOrNone
  BY DEF Messages
<1>1. ASSUME NEW d \in Copies PROVE SaveCookie(d, m.cookie) \in Copies
  BY <1>0, <1>1 DEF SaveCookie
<1>2. ASSUME NEW d \in Copies PROVE Store(d, m) \in Copies
  <2>1. [e \in Entries |-> IF e \in m.entries /\ d.content[e] < m.csn THEN m.csn
                           ELSE d.content[e]] \in [Entries -> CsnOrNone]
    BY <1>0, <1>2
  <2> QED
    BY <1>2, <2>1 DEF Store
<1>3. ASSUME NEW d \in Copies, NEW S PROVE RemoveEntries(d, S) \in Copies
  <2>1. [e \in Entries |-> IF e \in S THEN NoCsn ELSE d.content[e]] \in [Entries -> CsnOrNone]
    BY <1>3 DEF CsnOrNone
  <2> QED
    BY <1>3, <2>1 DEF RemoveEntries
<1>4. ASSUME NEW d \in Copies, NEW S, NEW x PROVE DelNonpresent(d, S, x) \in Copies
  <2>1. RemoveEntries(d, {e \in S : Covered(d, e, x)}) \in Copies
    BY <1>3, <1>4
  <2> QED
    BY <2>1 DEF DelNonpresent
<1>5. ASSUME NEW d \in Copies PROVE Present(d, m.entries) \in Copies
  BY <1>0, <1>5 DEF Present
<1>6. ASSUME NEW d \in Copies PROVE [d EXCEPT !.present = {}] \in Copies
  BY <1>6
<1>7. Change(k, m) \in Copies
  <2>1. Mentioned(k, m) \in Copies
    BY <1>5 DEF Mentioned
  <2>2. SaveCookie(RemoveEntries(k, m.entries), m.cookie) \in Copies
    BY <1>1, <1>3
  <2>3. SaveCookie(Store(Mentioned(k, m), m), m.cookie) \in Copies
    BY <1>1, <1>2, <2>1
  <2> HIDE DEF Copies
  <2> QED
    BY <2>2, <2>3 DEF Change
<1>8. EndRefresh(k, m) \in Copies
  <2> DEFINE d == [k EXCEPT !.refreshDone = TRUE,
                            !.refreshPresent = (m.tag = "REFRESH_PRESENT")]
             e == IF d.refreshPresent THEN DelNonpresent(d, Absent(d), m.cookie) ELSE d
  <2>1. d \in Copies
    OBVIOUS
  <2>2. e \in Copies
    BY <1>4, <2>1
  <2>3. [SaveCookie(e, m.cookie) EXCEPT !.present = {}] \in Copies
    BY <1>1, <1>6, <2>2
  <2> QED
    BY <2>1, <2>3 DEF EndRefresh
<1>9. EndSearch(k, m) \in Copies
  <2> DEFINE d == IF m.tag = "DONE_PRESENT" /\ Newer(k, m.cookie)
                    THEN DelNonpresent(k, Absent(k), m.cookie) ELSE [k EXCEPT !.present = {}]
  <2>1. d \in Copies
    BY <1>4, <1>6
  <2>2. SaveCookie(d, m.cookie) \in Copies
    BY <1>1, <2>1
  <2> QED
    BY <2>2 DEF EndSearch
<1>10. NewCookie(k, m) \in Copies
  <2>1. [SaveCookie(k, m.cookie) EXCEPT !.present = {}] \in Copies
    BY <1>1, <1>6
  <2> QED
    BY <2>1 DEF NewCookie
<1>11. /\ Present(k, m.entries) \in Copies /\ [k EXCEPT !.present = {}] \in Copies
       /\ DelNonpresent(k, m.entries, m.cookie) \in Copies
  BY <1>4, <1>5, <1>6
<1> HIDE DEF Copies
<1> QED
  BY <1>0, <1>7, <1>8, <1>9, <1>10, <1>11 DEF Receive, Tags

\* A new session, and the search it begins.
LEMMA FreeIs ==
  /\ Free \in Writings /\ Free.csn = 0 /\ Free.pc = "idle"
  /\ Off \in Sessions /\ Off.log = {} /\ InTurn(Off)
<1>1. Free.entry \in Entries
  BY TypesAssumption DEF Free
<1>2. Free \in Writings /\ Free.csn = 0 /\ Free.pc = "idle"
  BY <1>1, CsnsNat DEF Free, Writings, ChangeTags, Places
<1>3. Off \in Sessions /\ Off.log = {} /\ InTurn(Off)
  BY CsnsNat DEF Off, Sessions, CsnOrNone, InTurn, Distinct
<1> QED
  BY <1>2, <1>3

------------------------------------------------------------------------------
(***************************************************************************)
(* Updates                                                                 *)
(***************************************************************************)
\* A committed CSN is one of those pending.
LEMMA CommitCsnIn ==
  ASSUME NEW q \in SUBSET Csns, NEW m \in SUBSET q, CommitCsn(q, m) # NoCsn
  PROVE  CommitCsn(q, m) \in Csns
<1> DEFINE settled == {k \in m : \A p \in q \ m : k < p}
<1>1. settled \in SUBSET Csns /\ CommitCsn(q, m) = IF settled = {} THEN NoCsn ELSE Max(settled)
  BY DEF CommitCsn
<1> HIDE DEF settled
<1>2. settled # {}
  BY <1>1
<1>3. Max(settled) \in settled
  BY <1>1, <1>2, MaxCsnIn
<1> QED
  BY <1>1, <1>2, <1>3

\* Updates under way are finitely many.
LEMMA ComingIs ==
  /\ IsFiniteSet(Coming) /\ Cardinality(Coming) \in Nat
  /\ IsFiniteSet(Active) /\ Cardinality(Active) \in Nat
  /\ Cardinality(Coming) <= Cardinality(Active)
<1>1. Coming \subseteq Active /\ Active \subseteq Writers
  BY DEF Coming, Active
<1>2. IsFiniteSet(Active)
  BY <1>1, TypesAssumption, FS_Subset
<1> QED
  BY <1>1, <1>2, FS_Subset, FS_CardinalityType

\* The room left when no CSN is issued and no update begun.
LEMMA RoomKept ==
  ASSUME Types, Room, clock' = clock, Coming' \subseteq Coming
  PROVE  Room'
<1>1. Cardinality(Coming') <= Cardinality(Coming) /\ Cardinality(Coming') \in Nat
  BY ComingIs, FS_Subset, FS_CardinalityType
<1>2. clock \in Nat /\ MaxCsn \in Nat
  BY CsnsNat, ReplicationAssumption DEF Types, ClockTypes
<1> QED
  BY <1>1, <1>2, ComingIs DEF Room

\* Nothing but an update's own record changes.
LEMMA OneUpdate ==
  ASSUME TInv, NEW w \in Writers, NEW v \in Writings, wr' = [wr EXCEPT ![w] = v],
         UNCHANGED <<clock, pending, slog, srch>>, v.csn = wr[w].csn,
         wr[w].pc \notin {"begun", "ready"} => v.pc \notin {"begun", "ready"},
         v.pc \in {"idle", "begun", "ready"} => v.csn = 0,
         v.pc \in {"committed", "responding"} => wr[w].pc \in {"committed", "responding"},
         v.pc # "committed"
  PROVE  Room' /\ Numbered' /\ Logs'
<1>0. /\ wr \in [Writers -> Writings] /\ Types /\ Room /\ Numbered /\ Logs
      /\ \A u \in Writers : wr'[u] = IF u = w THEN v ELSE wr[u]
  BY DEF TInv, Types, WriterTypes
<1>1. Room'
  <2>1. Coming' \subseteq Coming
    BY <1>0 DEF Coming
  <2> QED
    BY <1>0, <2>1, RoomKept
<1>2. Numbered'
  BY <1>0 DEF Numbered
<1>3. Logs'
  BY <1>0 DEF Logs
<1> QED
  BY <1>1, <1>2, <1>3

\* An update begins while there is a CSN left for it.
LEMMA BeginTyped ==
  ASSUME TInv, NEW w \in Writers, Begin(w)
  PROVE  TInv'
<1>0. /\ wr \in [Writers -> Writings] /\ Types /\ Room /\ Numbered /\ Logs
      /\ clock \in Nat /\ MaxCsn \in Nat
  BY CsnsNat, ReplicationAssumption DEF TInv, Types, WriterTypes, ClockTypes
<1>1. PICK e \in Entries, tag \in ChangeTags, place \in Places :
        wr' = [wr EXCEPT ![w] = [Free EXCEPT
                !.pc = "begun", !.entry = e, !.tag = tag, !.place = place,
                !.watched = (Psearches # {})]]
  BY DEF Begin, ChangeTags, Leads, Places
<1> DEFINE v == [Free EXCEPT !.pc = "begun", !.entry = e, !.tag = tag, !.place = place,
                             !.watched = (Psearches # {})]
<1>2. v \in Writings /\ v.csn = 0 /\ v.pc = "begun"
  BY FreeIs DEF Writings
<1>3. wr' = [wr EXCEPT ![w] = v] /\ \A u \in Writers : wr'[u] = IF u = w THEN v ELSE wr[u]
  BY <1>0, <1>1
<1> HIDE DEF v
<1>4. /\ wr[w].pc = "idle" /\ clock + Cardinality(Active) < MaxCsn
      /\ UNCHANGED <<db, clock, pending, marked, ctxcsn, stored, dirty, slog, mincsn, resp>>
      /\ UNCHANGED <<srch, queue, chan, con, drops, stops>>
  BY DEF Begin, channels, faults
<1>5. Types'
  <2>1. wr' \in [Writers -> Writings]
    BY <1>0, <1>2, <1>3
  <2> QED
    BY <1>0, <1>4, <2>1 DEF Types, ClockTypes, WriterTypes, SearchTypes
<1>6. Room'
  <2>1. Coming' = Coming \cup {w} /\ w \notin Coming
    BY <1>2, <1>3, <1>4 DEF Coming
  <2>2. Cardinality(Coming') = Cardinality(Coming) + 1
    BY <2>1, ComingIs, FS_AddElement
  <2> QED
    BY <1>0, <1>4, <2>2, ComingIs DEF Room
<1>7. Numbered' /\ Logs'
  BY <1>0, <1>2, <1>3, <1>4 DEF Numbered, Logs
<1> QED
  BY <1>5, <1>6, <1>7 DEF TInv

\* The next CSN is the update's, and nobody else's.
LEMMA CommitTyped ==
  ASSUME TInv, NEW w \in Writers, Commit(w)
  PROVE  TInv'
<1>0. /\ wr \in [Writers -> Writings] /\ Types /\ Room /\ Numbered /\ Logs
      /\ clock \in Nat /\ MaxCsn \in Nat
  BY CsnsNat, ReplicationAssumption DEF TInv, Types, WriterTypes, ClockTypes
<1> DEFINE v == [wr[w] EXCEPT !.pc = "committed", !.csn = clock + 1]
<1>1. /\ wr[w].pc = "ready" /\ clock' = clock + 1 /\ pending' = pending \cup {clock + 1}
      /\ db' = [db EXCEPT ![wr[w].entry] = [csn |-> clock + 1, place |-> wr[w].place]]
      /\ UNCHANGED <<marked, ctxcsn, stored, dirty, slog, mincsn, resp>>
      /\ UNCHANGED <<srch, queue, chan, con, drops, stops>>
  BY DEF Commit, channels, faults
<1>2. wr' = [wr EXCEPT ![w] = v] /\ \A u \in Writers : wr'[u] = IF u = w THEN v ELSE wr[u]
  BY <1>0, <1>1 DEF Commit
<1>3. w \in Coming /\ Coming' = Coming \ {w}
  BY <1>0, <1>1, <1>2 DEF Coming
<1>4. Cardinality(Coming') = Cardinality(Coming) - 1
  BY <1>3, ComingIs, FS_RemoveElement
<1>5. Room' /\ clock + 1 \in Csns
  <2>1. Cardinality(Coming') \in Nat
    BY <1>3, ComingIs, FS_Subset, FS_CardinalityType
  <2> QED
    BY <1>0, <1>1, <1>4, <2>1, ComingIs DEF Room, Csns
<1>6. v \in Writings /\ v.csn = clock + 1 /\ v.pc = "committed"
  BY <1>0, <1>5 DEF Writings
<1> HIDE DEF v
<1>7. Types'
  <2>1. wr' \in [Writers -> Writings]
    BY <1>0, <1>2, <1>6
  <2>2. db' \in [Entries -> [csn : Csns, place : Places]]
    BY <1>0, <1>1, <1>5 DEF Types, ClockTypes, Writings
  <2> QED
    BY <1>0, <1>1, <1>5, <2>1, <2>2 DEF Types, ClockTypes, WriterTypes, SearchTypes
<1>8. \A u \in Writers : wr[u].csn \in Nat /\ wr[u].csn <= clock
  BY <1>0, CsnsNat DEF Numbered, Writings
<1>9. \A r \in slog : r.csn \in Nat /\ r.csn <= clock
  BY <1>0, CsnsNat DEF Logs, Records, Types, WriterTypes
<1>10. Numbered'
  <2>1. ASSUME NEW u \in Writers
        PROVE  /\ wr'[u].csn <= clock'
               /\ wr'[u].pc \in {"idle", "begun", "ready"} => wr'[u].csn = 0
               /\ wr'[u].pc \in {"committed", "responding"} =>
                    wr'[u].csn # 0 /\ \A r \in slog' : r.csn # wr'[u].csn
               /\ wr'[u].pc = "committed" => wr'[u].csn \in pending'
    <3>1. CASE u = w
      BY <1>0, <1>1, <1>2, <1>6, <1>9, <3>1
    <3>2. CASE u # w
      BY <1>0, <1>1, <1>2, <1>8, <3>2 DEF Numbered
    <3> QED
      BY <3>1, <3>2
  <2>2. \A t, u \in Writers : wr'[t].csn = wr'[u].csn /\ wr'[t].csn # 0 => t = u
    BY <1>0, <1>2, <1>6, <1>8 DEF Numbered
  <2>3. ASSUME NEW k \in pending' PROVE k # 0 /\ \E u \in Writers : wr'[u].csn = k
    <3>1. CASE k = clock + 1
      BY <1>0, <1>2, <1>6, <3>1
    <3>2. CASE k # clock + 1
      <4>1. k \in pending
        BY <1>1, <3>2
      <4>2. PICK u \in Writers : wr[u].csn = k /\ k # 0
        BY <1>0, <4>1 DEF Numbered
      <4>3. u # w
        BY <1>0, <1>1, <4>2 DEF Numbered
      <4> QED
        BY <1>2, <4>2, <4>3
    <3> QED
      BY <3>1, <3>2
  <2> QED
    BY <2>1, <2>2, <2>3 DEF Numbered
<1>11. Logs'
  BY <1>0, <1>1, <1>9 DEF Logs
<1> QED
  BY <1>5, <1>7, <1>10, <1>11 DEF TInv

\* An update looks for the searches its entry matches, or is refused.
LEMMA ReadyTyped ==
  ASSUME TInv, NEW w \in Writers, MatchBefore(w) \/ Refused(w)
  PROVE  TInv'
<1>0. wr \in [Writers -> Writings] /\ Types /\ Numbered
  BY DEF TInv, Types, WriterTypes
<1> DEFINE found == IF wr[w].tag # "ADD" /\ Matches(wr[w].entry) THEN Psearches ELSE {}
           v == IF MatchBefore(w) THEN [wr[w] EXCEPT !.pc = "ready", !.matched = found]
                ELSE [wr[w] EXCEPT !.pc = "answered"]
<1>1. found \in SUBSET Consumers
  BY ReplicationAssumption DEF Psearches
<1>2. /\ v \in Writings /\ v.csn = wr[w].csn
      /\ v.pc = IF MatchBefore(w) THEN "ready" ELSE "answered"
  BY <1>0, <1>1 DEF Writings
<1>3. wr' = [wr EXCEPT ![w] = v]
  <2>1. CASE MatchBefore(w)
    BY <1>0, <2>1 DEF MatchBefore, Writings
  <2>2. CASE ~MatchBefore(w)
    BY <1>0, <2>2 DEF Refused, Goto, Writings
  <2> QED
    BY <2>1, <2>2
<1> HIDE DEF v, found
<1>4. /\ wr[w].pc = IF MatchBefore(w) THEN "begun" ELSE "ready"
      /\ UNCHANGED <<db, clock, pending, marked, ctxcsn, stored, dirty, slog, mincsn, resp>>
      /\ UNCHANGED <<srch, queue, chan, con, drops, stops>>
  BY DEF MatchBefore, Refused, channels, faults
<1>5. wr[w].csn = 0
  BY <1>0, <1>4 DEF Numbered
<1>6. Types'
  <2>1. wr' \in [Writers -> Writings]
    BY <1>0, <1>2, <1>3
  <2> QED
    BY <1>0, <1>4, <2>1 DEF Types, ClockTypes, WriterTypes, SearchTypes
<1>7. Room' /\ Numbered' /\ Logs'
  BY <1>2, <1>3, <1>4, <1>5, OneUpdate
<1> QED
  BY <1>6, <1>7 DEF TInv

\* contextCSN goes to a CSN that is pending.
LEMMA RespondTyped ==
  ASSUME TInv, NEW w \in Writers, Respond(w)
  PROVE  TInv'
<1>0. wr \in [Writers -> Writings] /\ Types /\ Numbered
  BY DEF TInv, Types, WriterTypes
<1> DEFINE csn == CommitCsn(pending, marked')
           newer == csn > ctxcsn
           v == [wr[w] EXCEPT !.pc = "responding", !.changed = newer]
<1>1. v \in Writings /\ v.csn = wr[w].csn /\ v.pc = "responding"
  <2>1. newer \in BOOLEAN
    OBVIOUS
  <2> HIDE DEF newer
  <2> QED
    BY <1>0, <2>1 DEF Writings
<1>2. wr' = [wr EXCEPT ![w] = v]
  BY <1>0 DEF Respond, Writings
<1> HIDE DEF v
<1>3. /\ wr[w].pc = "committed" /\ marked' = marked \cup {wr[w].csn} /\ resp' = w
      /\ ctxcsn' = IF csn > ctxcsn THEN csn ELSE ctxcsn
      /\ dirty' = ~(csn > ctxcsn) /\ stored' \in {ctxcsn', stored}
      /\ UNCHANGED <<db, clock, pending, slog, mincsn, srch, queue, chan, con, drops, stops>>
  BY DEF Respond, channels, faults
<1>4. marked' \subseteq pending
  BY <1>0, <1>3 DEF Numbered, Types, ClockTypes
<1>5. ctxcsn' \in Csns
  <2>1. csn > ctxcsn => csn # NoCsn
    <3>1. ctxcsn \in Nat
      BY <1>0, CsnsNat DEF Types, ClockTypes
    <3> QED
      BY <3>1 DEF NoCsn
  <2>2. csn # NoCsn => csn \in Csns
    BY <1>0, <1>4, CommitCsnIn DEF Types, ClockTypes
  <2> HIDE DEF csn
  <2> QED
    BY <1>0, <1>3, <2>1, <2>2 DEF Types, ClockTypes
<1>6. Types'
  <2>1. wr' \in [Writers -> Writings]
    BY <1>0, <1>1, <1>2
  <2>2. ClockTypes'
    BY <1>0, <1>3, <1>4, <1>5 DEF Types, ClockTypes
  <2>3. WriterTypes'
    BY <1>0, <1>3, <2>1 DEF Types, WriterTypes
  <2> QED
    BY <1>0, <1>3, <2>2, <2>3 DEF Types, SearchTypes
<1>7. Room' /\ Numbered' /\ Logs'
  BY <1>1, <1>2, <1>3, OneUpdate
<1> QED
  BY <1>6, <1>7 DEF TInv

\* The change goes to the log, which lets the oldest go, and to the searches.
LEMMA DeliverTyped ==
  ASSUME TInv, NEW w \in Writers, Deliver(w)
  PROVE  TInv'
<1>0. wr \in [Writers -> Writings] /\ Types /\ Room /\ Numbered /\ Logs
  BY DEF TInv, Types, WriterTypes
<1> DEFINE v == [wr[w] EXCEPT !.pc = "answered"]
           new == [csn |-> wr[w].csn, entry |-> wr[w].entry, tag |-> wr[w].tag]
           gone == Expired(Logged(w))
<1>1. v \in Writings /\ v.csn = wr[w].csn /\ v.pc = "answered"
  BY <1>0 DEF Writings
<1>2. wr' = [wr EXCEPT ![w] = v] /\ \A u \in Writers : wr'[u] = IF u = w THEN v ELSE wr[u]
  BY <1>0 DEF Deliver, Goto, Writings
<1> HIDE DEF v
<1>3. /\ wr[w].pc = "responding" /\ resp' = NoWriter
      /\ UNCHANGED <<db, clock, pending, marked, ctxcsn, stored, dirty>>
      /\ UNCHANGED <<srch, chan, con, drops, stops>>
  BY DEF Deliver, faults
<1>4. /\ Logged(w) \in SUBSET Records /\ Distinct(Logged(w))
      /\ \A r \in Logged(w) : r \in slog \/ r = new
  <2>1. new \in Records /\ new.csn = wr[w].csn
    BY <1>0 DEF Writings, Records
  <2>2. \A r \in slog : r.csn # wr[w].csn
    BY <1>0, <1>3 DEF Numbered
  <2>3. Logged(w) = slog \cup {new}
    BY DEF Logged
  <2> HIDE DEF new
  <2> QED
    BY <1>0, <2>1, <2>2, <2>3 DEF Types, WriterTypes, Logs, Distinct
<1>5. /\ slog' \subseteq Logged(w)
      /\ mincsn' \in Csns
  <2>1. CASE LogSize > 0
    <3>1. /\ slog' = Logged(w) \ gone
          /\ mincsn' = IF gone = {} THEN mincsn ELSE Max({r.csn : r \in gone})
      BY <2>1 DEF Deliver, AddSlog
    <3>2. gone \subseteq Logged(w)
      BY DEF Expired
    <3> HIDE DEF gone
    <3>4. {r.csn : r \in gone} \in SUBSET Csns
      BY <1>4, <3>2 DEF Records
    <3>5. gone # {} => {r.csn : r \in gone} # {}
      OBVIOUS
    <3>6. gone # {} => Max({r.csn : r \in gone}) \in {r.csn : r \in gone}
      BY <3>4, <3>5, MaxCsnIn
    <3>7. mincsn' \in Csns
      BY <1>0, <3>1, <3>4, <3>6 DEF Types, ClockTypes
    <3> QED
      BY <3>1, <3>7
  <2>2. CASE ~(LogSize > 0)
    <3>1. slog' = slog /\ mincsn' = mincsn
      BY <2>2 DEF Deliver
    <3> QED
      BY <1>0, <3>1 DEF Types, ClockTypes, Logs, Logged
  <2> QED
    BY <2>1, <2>2
<1>6. queue' \in [Consumers -> Seq(Messages)]
  <2>1. ASSUME NEW c \in Consumers PROVE Told(w, c) \in Messages
    <3>1. /\ db[wr[w].entry].csn \in CsnOrNone /\ wr[w].entry \in Entries
          /\ ctxcsn \in CsnOrNone /\ NoCsn \in CsnOrNone
      BY <1>0 DEF Types, ClockTypes, Writings, CsnOrNone
    <3>2. /\ Message("MODIFY", {wr[w].entry}, db[wr[w].entry].csn, ctxcsn) \in Messages
          /\ Message("MODIFY", {wr[w].entry}, db[wr[w].entry].csn, NoCsn) \in Messages
          /\ Message("ADD", {wr[w].entry}, db[wr[w].entry].csn, ctxcsn) \in Messages
          /\ Message("ADD", {wr[w].entry}, db[wr[w].entry].csn, NoCsn) \in Messages
          /\ Message("DELETE", {wr[w].entry}, NoCsn, ctxcsn) \in Messages
          /\ Message("DELETE", {wr[w].entry}, NoCsn, NoCsn) \in Messages
          /\ Message("NEW_COOKIE", {}, NoCsn, ctxcsn) \in Messages
      BY <3>1, PlainMessage DEF Tags
    <3> QED
      BY <3>2 DEF Told
  <2>2. \A c \in Consumers : queue[c] \in Seq(Messages)
    BY <1>0 DEF Types, SearchTypes
  <2>3. \A c \in Consumers : Append(queue[c], Told(w, c)) \in Seq(Messages)
    BY <2>1, <2>2
  <2> QED
    BY <2>2, <2>3 DEF Deliver
<1>7. Types'
  <2>1. wr' \in [Writers -> Writings]
    BY <1>0, <1>1, <1>2
  <2>2. ClockTypes'
    BY <1>0, <1>3, <1>5 DEF Types, ClockTypes
  <2>3. WriterTypes'
    BY <1>0, <1>3, <1>4, <1>5, <2>1 DEF Types, WriterTypes
  <2> QED
    BY <1>0, <1>3, <1>6, <2>2, <2>3 DEF Types, SearchTypes
<1>8. Room'
  <2>1. Coming' \subseteq Coming
    BY <1>0, <1>1, <1>2 DEF Coming
  <2> QED
    BY <1>0, <1>3, <2>1, RoomKept
<1>9. Numbered'
  <2>1. ASSUME NEW u \in Writers, wr'[u].pc \in {"committed", "responding"}
        PROVE  wr'[u].csn # 0 /\ \A r \in slog' : r.csn # wr'[u].csn
    <3>1. u # w /\ wr'[u] = wr[u]
      BY <1>1, <1>2, <2>1
    <3>2. wr[u].csn # 0 /\ wr[u].csn # wr[w].csn /\ \A r \in slog : r.csn # wr[u].csn
      BY <1>0, <2>1, <3>1 DEF Numbered
    <3>3. new.csn = wr[w].csn
      OBVIOUS
    <3> HIDE DEF new
    <3> QED
      BY <1>4, <1>5, <3>1, <3>2, <3>3
  <2> QED
    BY <1>0, <1>1, <1>2, <1>3, <2>1 DEF Numbered
<1>10. Logs'
  <2>1. \A r \in slog' : r.csn <= clock
    <3>1. new.csn = wr[w].csn
      OBVIOUS
    <3> HIDE DEF new
    <3> QED
      BY <1>0, <1>4, <1>5, <3>1 DEF Numbered, Logs
  <2>2. Distinct(slog')
    BY <1>4, <1>5 DEF Distinct
  <2> QED
    BY <1>0, <1>3, <1>5, <2>1, <2>2 DEF Logs
<1> QED
  BY <1>7, <1>8, <1>9, <1>10 DEF TInv

\* An update ends, and its CSN is no longer pending.
LEMMA FinishTyped ==
  ASSUME TInv, NEW w \in Writers, Finish(w)
  PROVE  TInv'
<1>0. wr \in [Writers -> Writings] /\ Types /\ Room /\ Numbered /\ Logs
  BY DEF TInv, Types, WriterTypes
<1>1. /\ wr[w].pc = "answered"
      /\ pending' = pending \ {wr[w].csn} /\ marked' = marked \ {wr[w].csn}
      /\ UNCHANGED <<db, clock, ctxcsn, stored, dirty, slog, mincsn, resp>>
      /\ UNCHANGED <<srch, queue, chan, con, drops, stops>>
  BY DEF Finish, channels, faults
<1>2. wr' = [wr EXCEPT ![w] = Free] /\ \A u \in Writers : wr'[u] = IF u = w THEN Free ELSE wr[u]
  BY <1>0 DEF Finish
<1>3. Types'
  <2>1. wr' \in [Writers -> Writings]
    BY <1>0, <1>2, FreeIs
  <2> QED
    BY <1>0, <1>1, <2>1 DEF Types, ClockTypes, WriterTypes, SearchTypes
<1>4. Room'
  <2>1. Coming' \subseteq Coming
    BY <1>0, <1>2, FreeIs DEF Coming
  <2> QED
    BY <1>0, <1>1, <2>1, RoomKept
<1>5. Numbered'
  <2>1. clock \in Nat
    BY <1>0, CsnsNat DEF Types, ClockTypes
  <2>2. ASSUME NEW u \in Writers, wr'[u].pc = "committed" PROVE wr'[u].csn \in pending'
    <3>1. u # w /\ wr'[u] = wr[u]
      BY <1>2, <2>2, FreeIs
    <3>2. wr[u].csn \in pending /\ wr[u].csn # wr[w].csn
      BY <1>0, <2>2, <3>1 DEF Numbered
    <3> QED
      BY <1>1, <3>1, <3>2
  <2>3. ASSUME NEW k \in pending' PROVE k # 0 /\ \E u \in Writers : wr'[u].csn = k
    <3>1. PICK u \in Writers : wr[u].csn = k /\ k # 0
      BY <1>0, <1>1 DEF Numbered
    <3> QED
      BY <1>1, <1>2, <3>1
  <2> QED
    BY <1>0, <1>1, <1>2, <2>1, <2>2, <2>3, FreeIs DEF Numbered
<1>6. Logs'
  BY <1>0, <1>1 DEF Logs
<1> QED
  BY <1>3, <1>4, <1>5, <1>6 DEF TInv

------------------------------------------------------------------------------
(***************************************************************************)
(* Searches, consumers and connections                                     *)
(***************************************************************************)
LEMMA SearchKept ==
  ASSUME TInv, UNCHANGED provider, SearchTypes', \A c \in Consumers : InTurn(srch'[c]),
         drops' \in 0 .. MaxDrops, stops' \in 0 .. MaxStops
  PROVE  TInv'
<1>0. /\ UNCHANGED <<db, clock, pending, marked, ctxcsn, stored, dirty, slog, mincsn, resp, wr>>
      /\ Types /\ Room /\ Numbered /\ Logs
  BY DEF provider, TInv
<1>1. Types'
  BY <1>0 DEF Types, ClockTypes, WriterTypes
<1>2. Room'
  <2>1. Coming' = Coming
    BY <1>0 DEF Coming
  <2> QED
    BY <1>0, <2>1 DEF Room
<1>3. Numbered' /\ Logs'
  BY <1>0 DEF Numbered, Logs
<1> QED
  BY <1>1, <1>2, <1>3 DEF TInv

\* A step of one search.
LEMMA OneSearch ==
  ASSUME TInv, NEW c \in Consumers, NEW s \in Sessions, InTurn(s),
         srch' = [srch EXCEPT ![c] = s], UNCHANGED <<provider, faults>>,
         queue' \in [Consumers -> Seq(Messages)], chan' \in [Consumers -> Seq(Messages)],
         con' \in [Consumers -> Copies]
  PROVE  TInv'
<1>1. srch \in [Consumers -> Sessions] /\ \A d \in Consumers : InTurn(srch[d])
  BY DEF TInv, Types, SearchTypes, Logs
<1>2. srch' \in [Consumers -> Sessions] /\ \A d \in Consumers : InTurn(srch'[d])
  BY <1>1
<1>3. drops' \in 0 .. MaxDrops /\ stops' \in 0 .. MaxStops
  BY DEF TInv, Types, WriterTypes, faults
<1>4. SearchTypes'
  BY <1>2 DEF SearchTypes
<1> QED
  BY <1>2, <1>3, <1>4, SearchKept

\* What is sent is on the way.
LEMMA SendTyped ==
  ASSUME Types, NEW c \in Consumers, NEW messages \in Seq(Messages), Send(c, messages)
  PROVE  chan' \in [Consumers -> Seq(Messages)]
<1>1. chan \in [Consumers -> Seq(Messages)]
  BY DEF Types, SearchTypes
<1>2. chan[c] \o messages \in Seq(Messages)
  BY <1>1
<1> QED
  BY <1>1, <1>2 DEF Send

\* The messages a search ends with, and its state when it has.
LEMMA EndIs ==
  ASSUME NEW c \in Consumers, NEW present \in BOOLEAN, NEW cookie \in CsnOrNone
  PROVE  /\ Message(EndTag(c, present), {}, NoCsn, cookie) \in Messages
         /\ End(c, present, cookie) \in Seq(Messages)
         /\ Ended(c) \in Sessions /\ InTurn(Ended(c))
<1>1. EndTag(c, present) \in Tags /\ NoCsn \in CsnOrNone
  BY DEF EndTag, Tags, CsnOrNone
<1>2. Message(EndTag(c, present), {}, NoCsn, cookie) \in Messages
  BY <1>1, PlainMessage
<1>3. End(c, present, cookie) \in Seq(Messages)
  BY <1>2 DEF End
<1>4. Ended(c) \in Sessions /\ InTurn(Ended(c))
  BY FreeIs DEF Ended, Sessions, InTurn, Distinct
<1> QED
  BY <1>2, <1>3, <1>4

\* A session starts, waits for its turn and takes its snapshot, ...
LEMMA StartTyped ==
  ASSUME TInv, NEW c \in Consumers,
         Connect(c) \/ Register(c) \/ StartRefused(c) \/ StartNoChange(c) \/ Start(c)
  PROVE  TInv'
<1>0. /\ Types /\ srch \in [Consumers -> Sessions] /\ srch[c] \in Sessions
      /\ queue \in [Consumers -> Seq(Messages)] /\ chan \in [Consumers -> Seq(Messages)]
      /\ con \in [Consumers -> Copies] /\ con[c] \in Copies /\ InTurn(srch[c])
      /\ ctxcsn \in Csns /\ NoCsn \in CsnOrNone
  BY DEF TInv, Types, SearchTypes, ClockTypes, Logs, CsnOrNone
<1>1. CASE Connect(c)
  <2> DEFINE s == [Off EXCEPT !.pc = IF c \in Persist THEN "wait" ELSE "start",
                              !.cookie = con[c].cookie]
  <2>1. s \in Sessions /\ InTurn(s)
    BY <1>0, FreeIs DEF Sessions, Copies, InTurn, Distinct
  <2>2. Reset(con[c]) \in Copies
    BY <1>0 DEF Reset, Consumer, Copies
  <2>3. /\ srch' = [srch EXCEPT ![c] = s] /\ con' = [con EXCEPT ![c] = Reset(con[c])]
        /\ UNCHANGED <<provider, faults, queue, chan>>
    BY <1>1 DEF Connect, channels
  <2> HIDE DEF s
  <2>4. con' \in [Consumers -> Copies]
    BY <1>0, <2>2, <2>3
  <2> QED
    BY <1>0, <2>1, <2>3, <2>4, OneSearch
<1>2. CASE Register(c) \/ Start(c)
  <2> DEFINE pc == IF Register(c) THEN "start"
                   ELSE IF srch[c].cookie = NoCsn THEN "search"
                   ELSE IF LogSize > 0 THEN "log" ELSE "find"
             behind == srch[c].cookie < ctxcsn
             known == srch[c].cookie # NoCsn
             s == IF Register(c) THEN [srch[c] EXCEPT !.pc = pc]
                  ELSE [srch[c] EXCEPT !.pc = pc, !.ctx = ctxcsn,
                                       !.changed = behind, !.present = known]
  <2>0. /\ pc \in {"start", "search", "log", "find"}
        /\ behind \in BOOLEAN /\ known \in BOOLEAN
    OBVIOUS
  <2>1. srch' = [srch EXCEPT ![c] = s]
    <3>1. CASE Register(c)
      BY <1>0, <3>1 DEF Register, Sessions
    <3>2. CASE ~Register(c)
      <4>1. Snapshot(c, pc)
        BY <1>2, <3>2 DEF Start
      <4> HIDE DEF pc
      <4> QED
        BY <1>0, <3>2, <4>1 DEF Snapshot, Sessions
    <3> QED
      BY <3>1, <3>2
  <2> HIDE DEF pc, behind, known
  <2>2. s \in Sessions /\ InTurn(s)
    BY <1>0, <2>0 DEF Sessions, InTurn
  <2> HIDE DEF s
  <2>3. UNCHANGED <<provider, faults, queue, chan, con>>
    BY <1>2 DEF Register, Start, channels
  <2> QED
    BY <1>0, <2>1, <2>2, <2>3, OneSearch
<1>3. CASE StartRefused(c) \/ StartNoChange(c)
  <2> DEFINE messages == IF StartRefused(c) THEN <<Message("REFUSED", {}, NoCsn, NoCsn)>>
                         ELSE End(c, FALSE, NoCsn)
             s == IF StartRefused(c) THEN Off ELSE Ended(c)
  <2>1. Message("REFUSED", {}, NoCsn, NoCsn) \in Messages
    BY <1>0, PlainMessage DEF Tags
  <2>2. messages \in Seq(Messages)
    <3>1. End(c, FALSE, NoCsn) \in Seq(Messages)
      BY <1>0, EndIs
    <3> DEFINE m == Message("REFUSED", {}, NoCsn, NoCsn)
    <3> HIDE DEF m
    <3>2. <<m>> \in Seq(Messages)
      BY <2>1 DEF m
    <3> QED
      BY <3>1, <3>2 DEF m
  <2>3. s \in Sessions /\ InTurn(s)
    BY <1>0, EndIs, FreeIs
  <2>4. Send(c, messages) /\ srch' = [srch EXCEPT ![c] = s]
        /\ UNCHANGED <<provider, faults, con>> /\ queue' \in {queue, [queue EXCEPT ![c] = <<>>]}
    BY <1>3 DEF StartRefused, StartNoChange
  <2> HIDE DEF messages, s
  <2>5. chan' \in [Consumers -> Seq(Messages)]
    BY <1>0, <2>2, <2>4, SendTyped
  <2>6. queue' \in [Consumers -> Seq(Messages)]
    <3>1. <<>> \in Seq(Messages)
      OBVIOUS
    <3>2. [queue EXCEPT ![c] = <<>>] \in [Consumers -> Seq(Messages)]
      BY <1>0, <3>1
    <3> QED
      BY <1>0, <2>4, <3>2
  <2> QED
    BY <1>0, <2>3, <2>4, <2>5, <2>6, OneSearch
<1> QED
  BY <1>1, <1>2, <1>3

\* ... plays the log, ...
LEMMA LogTyped ==
  ASSUME TInv, NEW c \in Consumers, PlayLog(c) \/ PickNext(c) \/ Picked(c) \/ SendLog(c)
  PROVE  TInv'
<1>0. /\ Types /\ srch \in [Consumers -> Sessions] /\ srch[c] \in Sessions
      /\ queue \in [Consumers -> Seq(Messages)] /\ chan \in [Consumers -> Seq(Messages)]
      /\ con \in [Consumers -> Copies] /\ InTurn(srch[c]) /\ Distinct(slog)
      /\ slog \subseteq Records /\ NoCsn \in CsnOrNone
  BY DEF TInv, Types, SearchTypes, WriterTypes, Logs, CsnOrNone
<1>1. CASE PlayLog(c)
  <2>1. PICK s \in {[srch[c] EXCEPT !.pc = "pick", !.present = FALSE,
                                     !.at = srch[c].cookie, !.log = {}],
                    [srch[c] EXCEPT !.pc = "find"]} : srch' = [srch EXCEPT ![c] = s]
    BY <1>0, <1>1 DEF PlayLog, Sessions
  <2>2. s \in Sessions /\ InTurn(s)
    BY <1>0, <2>1 DEF Sessions, InTurn, Distinct
  <2>3. UNCHANGED <<provider, faults, queue, chan, con>>
    BY <1>1 DEF PlayLog, channels
  <2> QED
    BY <1>0, <2>1, <2>2, <2>3, OneSearch
<1>3. CASE PickNext(c)
  <2>1. PICK r \in slog : /\ srch[c].at < r.csn /\ srch[c].pc = "pick"
                          /\ srch' = [srch EXCEPT ![c].at = r.csn,
                               ![c].log = IF r.tag = "ADD" THEN @ ELSE @ \cup {r}]
    BY <1>3 DEF PickNext, Ahead
  <2> DEFINE picked == IF r.tag = "ADD" THEN srch[c].log ELSE srch[c].log \cup {r}
             s == [srch[c] EXCEPT !.at = r.csn, !.log = picked]
  <2>2. srch' = [srch EXCEPT ![c] = s]
    BY <1>0, <2>1 DEF Sessions
  <2>3. \A q \in srch[c].log : q.csn <= srch[c].at /\ q.csn \in Int
    BY <1>0, <2>1, CsnsNat DEF InTurn, Sessions, Records
  <2>4. r \in Records /\ r.csn \in Csns /\ r.csn \in Int /\ srch[c].at \in Int
    <3>1. srch[c].at \in CsnOrNone
      BY <1>0 DEF Sessions
    <3>2. r \in Records /\ r.csn \in Csns
      BY <1>0 DEF Records
    <3>3. r.csn \in CsnOrNone
      BY <3>2 DEF CsnOrNone
    <3> QED
      BY <3>1, <3>2, <3>3, CsnsInt
  <2>5. s \in Sessions /\ s.at = r.csn /\ s.log = picked
    BY <1>0, <2>4 DEF Sessions, CsnOrNone
  <2>6. \A q \in picked : q.csn <= r.csn
    BY <2>1, <2>3, <2>4
  <2>7. Distinct(picked)
    BY <1>0, <2>1, <2>3, <2>4 DEF Distinct, InTurn
  <2> HIDE DEF s, picked
  <2>8. InTurn(s)
    BY <2>5, <2>6, <2>7 DEF InTurn
  <2>9. UNCHANGED <<provider, faults, queue, chan, con>>
    BY <1>3 DEF PickNext, channels
  <2> QED
    BY <1>0, <2>2, <2>5, <2>8, <2>9, OneSearch
<1>4. CASE Picked(c)
  <2> DEFINE s == [srch[c] EXCEPT !.pc = "send", !.at = NoCsn]
  <2>1. srch' = [srch EXCEPT ![c] = s]
    BY <1>0, <1>4 DEF Picked, Sessions
  <2>2. s \in Sessions /\ InTurn(s)
    BY <1>0 DEF Sessions, InTurn
  <2> HIDE DEF s
  <2>3. UNCHANGED <<provider, faults, queue, chan, con>>
    BY <1>4 DEF Picked, channels
  <2> QED
    BY <1>0, <2>1, <2>2, <2>3, OneSearch
<1>2. CASE SendLog(c)
  <2> DEFINE gone == Disappeared(srch[c].log)
             tell == [i \in 1 .. Cardinality(gone) |->
                        Message("DELETES", {Nth(gone, i).entry}, NoCsn, srch[c].cookie)]
             s == [srch[c] EXCEPT !.pc = "search", !.log = {}]
  <2>1. gone \in SUBSET Records /\ Distinct(gone)
    BY <1>0 DEF Disappeared, Distinct, Sessions, InTurn
  <2>2. Send(c, tell) /\ UNCHANGED <<provider, faults, queue, con>>
    BY <1>2 DEF SendLog
  <2> HIDE DEF gone
  <2>3. Cardinality(gone) \in Nat /\ srch[c].cookie \in CsnOrNone
    BY <1>0, <2>1, RankOnto DEF Sessions
  <2>4. ASSUME NEW i \in 1 .. Cardinality(gone)
        PROVE  Message("DELETES", {Nth(gone, i).entry}, NoCsn, srch[c].cookie) \in Messages
    <3>1. Nth(gone, i) \in Records
      BY <2>1, NthIs
    <3>2. {Nth(gone, i).entry} \in SUBSET Entries
      BY <3>1 DEF Records
    <3> QED
      BY <1>0, <2>3, <3>2, PlainMessage DEF Tags
  <2>5. tell \in Seq(Messages)
    <3> DEFINE n == Cardinality(gone)
    <3>1. tell = [i \in 1 .. n |-> tell[i]] /\ \A i \in 1 .. n : tell[i] \in Messages
      BY <2>4
    <3> HIDE DEF tell
    <3> QED
      BY <2>3, <3>1, ListTyped
  <2> HIDE DEF tell
  <2>6. chan' \in [Consumers -> Seq(Messages)]
    BY <1>0, <2>2, <2>5, SendTyped
  <2>7. srch' = [srch EXCEPT ![c] = s]
    BY <1>0, <1>2 DEF SendLog, Sessions
  <2>8. s \in Sessions /\ InTurn(s)
    BY <1>0 DEF Sessions, InTurn, Distinct
  <2> HIDE DEF s
  <2> QED
    BY <1>0, <2>2, <2>6, <2>7, <2>8, OneSearch
<1> QED
  BY <1>1, <1>2, <1>3, <1>4

\* ... looks for the cookie's CSN, says what is present, and searches.
LEMMA SearchTyped ==
  ASSUME TInv, NEW c \in Consumers, FindCsn(c) \/ FindPresent(c) \/ Search(c)
  PROVE  TInv'
<1>0. /\ Types /\ srch \in [Consumers -> Sessions] /\ srch[c] \in Sessions
      /\ queue \in [Consumers -> Seq(Messages)] /\ chan \in [Consumers -> Seq(Messages)]
      /\ con \in [Consumers -> Copies] /\ InTurn(srch[c])
      /\ NoCsn \in CsnOrNone /\ db \in [Entries -> [csn : Csns, place : Places]]
  BY DEF TInv, Types, SearchTypes, ClockTypes, Logs, CsnOrNone
<1>1. CASE FindCsn(c)
  <2>1. PICK s \in {[srch[c] EXCEPT !.pc = "list"],
                    [srch[c] EXCEPT !.pc = "search", !.cookie = NoCsn]} :
          srch' = [srch EXCEPT ![c] = s]
    BY <1>0, <1>1 DEF FindCsn, Sessions
  <2>2. s \in Sessions /\ InTurn(s)
    BY <1>0, <2>1 DEF Sessions, InTurn
  <2>3. UNCHANGED <<provider, faults, queue, chan, con>>
    BY <1>1 DEF FindCsn, channels
  <2> QED
    BY <1>0, <2>1, <2>2, <2>3, OneSearch
<1>2. CASE FindPresent(c)
  <2> DEFINE s == [srch[c] EXCEPT !.pc = "search"]
             m == Message("PRESENT", {e \in Entries : Matches(e)}, NoCsn, NoCsn)
  <2>1. m \in Messages
    <3>1. {e \in Entries : Matches(e)} \in SUBSET Entries
      OBVIOUS
    <3> QED
      BY <1>0, <3>1, PlainMessage DEF Tags
  <2>2. Send(c, <<m>>) /\ UNCHANGED <<provider, faults, queue, con>>
    BY <1>2 DEF FindPresent
  <2>3. srch' = [srch EXCEPT ![c] = s] /\ s \in Sessions /\ InTurn(s)
    BY <1>0, <1>2 DEF FindPresent, Sessions, InTurn
  <2> HIDE DEF s, m
  <2>4. <<m>> \in Seq(Messages)
    BY <2>1
  <2>5. chan' \in [Consumers -> Seq(Messages)]
    BY <1>0, <2>2, <2>4, SendTyped
  <2> QED
    BY <1>0, <2>2, <2>3, <2>5, OneSearch
<1>3. CASE Search(c)
  <2> DEFINE found == SetToSeq(Found(c))
             tell == [i \in DOMAIN found |->
                        Message("ADD", {found[i]}, db[found[i]].csn, NoCsn)]
             finish == End(c, srch[c].present, EndCookie(c))
  <2>1. IsFiniteSet(Found(c)) /\ Found(c) \subseteq Entries
    BY EntriesAssumption, FS_Subset DEF Found
  <2>2. found \in Seq(Entries)
    <3>1. found \in Seq(Found(c))
      BY <2>1, SetToSeqIs
    <3> QED
      BY <2>1, <3>1
  <2>3. /\ Send(c, tell \o finish) /\ srch' = [srch EXCEPT ![c] = Ended(c)]
        /\ UNCHANGED <<provider, faults, queue, con>>
    BY <1>3 DEF Search
  <2> HIDE DEF found
  <2>4. ASSUME NEW i \in DOMAIN found
        PROVE  Message("ADD", {found[i]}, db[found[i]].csn, NoCsn) \in Messages
    <3>1. found[i] \in Entries
      BY <2>2
    <3>2. db[found[i]].csn \in CsnOrNone
      BY <1>0, <3>1 DEF CsnOrNone
    <3> QED
      BY <1>0, <3>1, <3>2, PlainMessage DEF Tags
  <2>5. tell \in Seq(Messages)
    <3>1. DOMAIN found = 1 .. Len(found) /\ Len(found) \in Nat
      BY <2>2
    <3> QED
      <4> DEFINE n == Len(found)
      <4>1. tell = [i \in 1 .. n |-> tell[i]] /\ \A i \in 1 .. n : tell[i] \in Messages
        BY <2>4, <3>1
      <4> HIDE DEF tell
      <4> QED
        BY <3>1, <4>1, ListTyped
  <2>6. finish \in Seq(Messages) /\ Ended(c) \in Sessions /\ InTurn(Ended(c))
    <3>1. EndCookie(c) \in CsnOrNone /\ srch[c].present \in BOOLEAN
      BY <1>0 DEF EndCookie, Sessions, CsnOrNone
    <3> QED
      BY <3>1, EndIs
  <2> HIDE DEF tell, finish
  <2>7. tell \o finish \in Seq(Messages)
    BY <2>5, <2>6
  <2>8. chan' \in [Consumers -> Seq(Messages)]
    BY <1>0, <2>3, <2>7, SendTyped
  <2> QED
    BY <1>0, <2>3, <2>6, <2>8, OneSearch
<1> QED
  BY <1>1, <1>2, <1>3

\* Searches and queues that end are as they were at first.
LEMMA DisconnectTyped ==
  ASSUME TInv, NEW cs \in SUBSET Consumers, Disconnect(cs)
  PROVE  /\ srch' \in [Consumers -> Sessions] /\ \A c \in Consumers : InTurn(srch'[c])
         /\ queue' \in [Consumers -> Seq(Messages)] /\ chan' \in [Consumers -> Seq(Messages)]
<1>0. /\ srch \in [Consumers -> Sessions] /\ \A c \in Consumers : InTurn(srch[c])
      /\ queue \in [Consumers -> Seq(Messages)] /\ chan \in [Consumers -> Seq(Messages)]
  BY DEF TInv, Types, SearchTypes, Logs
<1>1. <<>> \in Seq(Messages) /\ Off \in Sessions /\ InTurn(Off)
  BY FreeIs
<1> QED
  BY <1>0, <1>1 DEF Disconnect

\* What is queued is sent, received, or lost.
LEMMA MailTyped ==
  ASSUME TInv, NEW c \in Consumers,
         SendQueued(c) \/ Handle(c) \/ Drop(c) \/ StopConsumer(c)
  PROVE  TInv'
<1>0. /\ Types /\ srch \in [Consumers -> Sessions] /\ \A d \in Consumers : InTurn(srch[d])
      /\ queue \in [Consumers -> Seq(Messages)] /\ chan \in [Consumers -> Seq(Messages)]
      /\ con \in [Consumers -> Copies] /\ con[c] \in Copies
      /\ drops \in 0 .. MaxDrops /\ stops \in 0 .. MaxStops
  BY DEF TInv, Types, SearchTypes, WriterTypes, Logs
<1>1. ASSUME NEW q \in Seq(Messages), q # <<>>
      PROVE  Head(q) \in Messages /\ Tail(q) \in Seq(Messages) /\ <<Head(q)>> \in Seq(Messages)
  BY <1>1
<1>2. chan[c] \in Seq(Messages) /\ queue[c] \in Seq(Messages)
  BY <1>0
<1>3. ASSUME chan[c] # <<>>
      PROVE  /\ Receive(con[c], Head(chan[c])) \in Copies
             /\ [Receive(con[c], Head(chan[c])) EXCEPT !.cookie = con[c].cookie] \in Copies
  <2> DEFINE k == Receive(con[c], Head(chan[c]))
  <2>1. k \in Copies
    BY <1>0, <1>1, <1>2, <1>3, ReceiveTyped
  <2> HIDE DEF k
  <2>2. [k EXCEPT !.cookie = con[c].cookie] \in Copies
    BY <1>0, <2>1 DEF Copies
  <2> QED
    BY <2>1, <2>2 DEF k
<1>4. CASE SendQueued(c)
  <2>1. queue[c] # <<>> /\ Send(c, <<Head(queue[c])>>)
        /\ queue' = [queue EXCEPT ![c] = Tail(queue[c])]
        /\ UNCHANGED <<provider, srch, con, drops, stops>>
    BY <1>0, <1>4 DEF SendQueued, Queued, faults
  <2>2. chan' \in [Consumers -> Seq(Messages)]
    BY <1>0, <1>1, <1>2, <2>1, SendTyped
  <2>3. queue' \in [Consumers -> Seq(Messages)]
    BY <1>0, <1>1, <1>2, <2>1
  <2>4. SearchTypes'
    BY <1>0, <2>1, <2>2, <2>3 DEF SearchTypes
  <2> QED
    BY <1>0, <2>1, <2>4, SearchKept
<1>5. CASE Handle(c)
  <2>1. chan[c] # <<>> /\ chan' = [chan EXCEPT ![c] = Tail(chan[c])]
        /\ con' = [con EXCEPT ![c] = Receive(con[c], Head(chan[c]))]
        /\ UNCHANGED <<provider, srch, queue, drops, stops>>
    BY <1>0, <1>5 DEF Handle, faults
  <2>2. chan' \in [Consumers -> Seq(Messages)]
    BY <1>0, <1>1, <1>2, <2>1
  <2>3. con' \in [Consumers -> Copies]
    BY <1>0, <1>3, <2>1
  <2>4. SearchTypes'
    BY <1>0, <2>1, <2>2, <2>3 DEF SearchTypes
  <2> QED
    BY <1>0, <2>1, <2>4, SearchKept
<1>6. CASE Drop(c) \/ StopConsumer(c)
  <2>1. /\ drops < MaxDrops /\ drops' = drops + 1 /\ Disconnect({c})
        /\ UNCHANGED <<provider, stops>>
    BY <1>6 DEF Drop, StopConsumer
  <2>2. drops' \in 0 .. MaxDrops
    BY <1>0, <2>1, ReplicationAssumption
  <2>3. con' \in [Consumers -> Copies]
    BY <1>0, <1>3, <1>6 DEF Drop, StopConsumer
  <2>4. SearchTypes' /\ \A d \in Consumers : InTurn(srch'[d])
    BY <2>1, <2>3, DisconnectTyped DEF SearchTypes
  <2> QED
    BY <1>0, <2>1, <2>2, <2>4, SearchKept
<1> QED
  BY <1>4, <1>5, <1>6

\* A provider that starts again knows of no update and has an empty log.
LEMMA RestartTyped ==
  ASSUME TInv, Restart
  PROVE  TInv'
<1>0. /\ Types /\ Room /\ con \in [Consumers -> Copies] /\ wr \in [Writers -> Writings]
      /\ db \in [Entries -> [csn : Csns, place : Places]] /\ stored \in Csns
      /\ clock \in Csns /\ drops \in 0 .. MaxDrops /\ stops \in 0 .. MaxStops
  BY DEF TInv, Types, SearchTypes, WriterTypes, ClockTypes
<1>1. /\ stops < MaxStops /\ stops' = stops + 1 /\ dirty' = FALSE
      /\ slog' = {} /\ mincsn' = ctxcsn' /\ pending' = {} /\ marked' = {} /\ resp' = NoWriter
      /\ wr' = [w \in Writers |-> Free] /\ Disconnect(Consumers)
      /\ UNCHANGED <<db, clock, stored, con, drops>>
      /\ \E clean \in DbClean : ctxcsn' = Reopened(clean)
  BY DEF Restart
<1>2. ctxcsn' \in Csns
  <2> DEFINE S == {stored} \cup {db[e].csn : e \in {f \in Entries : Exists(f)}}
  <2>1. S \in SUBSET Csns /\ S # {}
    BY <1>0
  <2>2. ctxcsn' \in {stored, Max(S)}
    BY <1>1 DEF Reopened
  <2> HIDE DEF S
  <2>3. Max(S) \in Csns
    BY <2>1, MaxCsnIn
  <2> QED
    BY <1>0, <2>2, <2>3
<1>3. ClockTypes'
  BY <1>0, <1>1, <1>2 DEF ClockTypes
<1>4. wr' \in [Writers -> Writings] /\ \A w \in Writers : wr'[w].csn = 0 /\ wr'[w].pc = "idle"
  <2>1. \A w \in Writers : wr'[w] = Free
    BY <1>1
  <2> QED
    BY <1>1, <2>1, FreeIs
<1>5. WriterTypes'
  <2>1. stops' \in 0 .. MaxStops
    BY <1>0, <1>1, ReplicationAssumption
  <2> QED
    BY <1>0, <1>1, <1>4, <2>1 DEF WriterTypes
<1>6. SearchTypes' /\ \A c \in Consumers : InTurn(srch'[c])
  BY <1>0, <1>1, DisconnectTyped DEF SearchTypes
<1>7. Room'
  <2>1. Coming' = {}
    BY <1>4 DEF Coming
  <2> QED
    BY <1>0, <1>1, <2>1, RoomKept
<1>8. Numbered'
  BY <1>0, <1>1, <1>4, CsnsNat DEF Numbered
<1>9. Logs'
  BY <1>1, <1>6, FS_EmptySet, ReplicationAssumption DEF Logs, Distinct
<1> QED
  BY <1>3, <1>5, <1>6, <1>7, <1>8, <1>9 DEF TInv, Types

------------------------------------------------------------------------------
(***************************************************************************)
(* The theorem                                                             *)
(***************************************************************************)
LEMMA TInvInit == ASSUME Init PROVE TInv
<1>0. 0 \in Csns /\ 0 \in CsnOrNone /\ NoCsn \in CsnOrNone
  BY CsnsNat DEF CsnOrNone
<1>1. wr \in [Writers -> Writings] /\ \A w \in Writers : wr[w].csn = 0 /\ wr[w].pc = "idle"
  <2>1. wr = [w \in Writers |-> Free]
    BY DEF Init
  <2> QED
    BY <2>1, FreeIs
<1>2. srch \in [Consumers -> Sessions] /\ \A c \in Consumers : InTurn(srch[c])
  <2>1. srch = [c \in Consumers |-> Off]
    BY DEF Init
  <2> QED
    BY <2>1, FreeIs
<1>3. queue \in [Consumers -> Seq(Messages)] /\ chan \in [Consumers -> Seq(Messages)]
  <2>1. <<>> \in Seq(Messages)
    OBVIOUS
  <2> QED
    BY <2>1 DEF Init
<1>4. con \in [Consumers -> Copies]
  <2> DEFINE held(c) == [e \in Entries |-> IF c \notin Empty /\ e \in Existing THEN 0 ELSE NoCsn]
             cookie(c) == IF c \in Empty THEN NoCsn ELSE 0
  <2>1. ASSUME NEW c \in Consumers PROVE Consumer(held(c), cookie(c)) \in Copies
    <3>1. held(c) \in [Entries -> CsnOrNone] /\ cookie(c) \in CsnOrNone
      BY <1>0
    <3> QED
      BY <3>1 DEF Consumer, Copies
  <2>2. con = [c \in Consumers |-> Consumer(held(c), cookie(c))]
    BY DEF Init
  <2> QED
    BY <2>1, <2>2
<1>5. ClockTypes
  <2>1. db \in [Entries -> [csn : Csns, place : Places]]
    BY <1>0 DEF Init, Places
  <2> QED
    BY <1>0, <2>1 DEF Init, ClockTypes
<1>i. /\ dirty = FALSE /\ resp = NoWriter /\ slog = {} /\ drops = 0 /\ stops = 0
      /\ clock = 0 /\ pending = {}
  BY DEF Init
<1>6. WriterTypes
  <2>1. drops \in 0 .. MaxDrops /\ stops \in 0 .. MaxStops
    BY <1>i, ReplicationAssumption
  <2>2. slog \subseteq Records /\ resp \in Writers \cup {NoWriter} /\ dirty \in BOOLEAN
    BY <1>i
  <2> QED
    BY <1>1, <2>1, <2>2 DEF WriterTypes
<1>7. SearchTypes
  BY <1>2, <1>3, <1>4 DEF SearchTypes
<1>8. Room
  <2>1. Coming = {} /\ clock = 0
    BY <1>1 DEF Coming, Init
  <2> QED
    BY <2>1, FS_EmptySet, ReplicationAssumption DEF Room
<1>9. Numbered
  BY <1>1, <1>i DEF Numbered
<1>10. Logs
  BY <1>2, <1>i, FS_EmptySet, ReplicationAssumption DEF Logs, Distinct
<1> QED
  BY <1>5, <1>6, <1>7, <1>8, <1>9, <1>10 DEF TInv, Types

LEMMA TInvNext == ASSUME TInv, [Next]_vars PROVE TInv'
<1>1. ASSUME NEW w \in Writers, Begin(w) \/ Progress(w) PROVE TInv'
  BY <1>1, BeginTyped, ReadyTyped, CommitTyped, RespondTyped, DeliverTyped, FinishTyped
     DEF Progress
<1>2. ASSUME NEW c \in Consumers,
             \/ Connect(c) \/ Serve(c) \/ SendQueued(c) \/ Handle(c) \/ Drop(c)
             \/ StopConsumer(c)
      PROVE  TInv'
  BY <1>2, StartTyped, LogTyped, SearchTyped, MailTyped DEF Serve
<1>3. CASE UNCHANGED vars
  <2>1. UNCHANGED <<provider, srch, queue, chan, con, drops, stops>>
    BY <1>3 DEF vars, channels, faults
  <2>2. SearchTypes' /\ \A c \in Consumers : InTurn(srch'[c])
    BY <2>1 DEF TInv, Types, SearchTypes, Logs
  <2>3. drops' \in 0 .. MaxDrops /\ stops' \in 0 .. MaxStops
    BY <2>1 DEF TInv, Types, WriterTypes
  <2> QED
    BY <2>1, <2>2, <2>3, SearchKept
<1> QED
  BY <1>1, <1>2, <1>3, RestartTyped DEF Next

\* What is said of the variables is what TypeOK says.
LEMMA TInvTyped == ASSUME TInv PROVE TypeOK
<1>1. /\ db \in [Entries -> [csn : Csns, place : Places]]
      /\ {clock, ctxcsn, stored, mincsn} \subseteq Csns
      /\ pending \subseteq Csns \cap {wr[w].csn : w \in Writers} /\ marked \subseteq pending
  BY DEF TInv, Types, ClockTypes, Numbered
<1>2. /\ dirty \in BOOLEAN /\ resp \in Writers \cup {NoWriter}
      /\ slog \subseteq [csn : Csns, entry : Entries, tag : ChangeTags]
      /\ wr \in [Writers ->
           [pc : {"idle", "begun", "ready", "committed", "responding", "answered"},
            entry : Entries, tag : ChangeTags, place : Places, csn : Csns,
            watched : BOOLEAN, matched : SUBSET Consumers, changed : BOOLEAN]]
      /\ drops \in 0 .. MaxDrops /\ stops \in 0 .. MaxStops
  BY DEF TInv, Types, WriterTypes, Logs, Records, Writings
<1>3. ASSUME NEW c \in Consumers
      PROVE  /\ srch[c] \in Sessions /\ con[c] \in Copies
             /\ \A i \in DOMAIN queue[c] : queue[c][i] \in Messages
             /\ \A i \in DOMAIN chan[c] : chan[c][i] \in Messages
  BY DEF TInv, Types, SearchTypes
<1> QED
  BY <1>1, <1>2, <1>3 DEF TypeOK, Sessions, Copies, Records

\* Replication's variables have their types, whatever the constants: CSNs stay
\* within those there are, and no CSN is pending that no update in progress has,
\* whatever is refused, lost or restarted (syncprov.c:1500).
THEOREM TypeCorrect == Spec => []TypeOK
<1>1. Init => TInv
  BY TInvInit
<1>2. TInv /\ [Next]_vars => TInv'
  BY TInvNext
<1>3. TInv => TypeOK
  BY TInvTyped
<1> QED
  BY <1>1, <1>2, <1>3, PTL DEF Spec
==============================================================================
