---------------------------- MODULE StreamProofs ----------------------------
(***************************************************************************)
(* The durable stream keeps its delivery contract whatever fails: every    *)
(* step of the source, the consumer and the server is a step of            *)
(* AtLeastOnce, so that nothing is forgotten before it was handed over.    *)
(* And as long as one consumer runs without a fault, the order's row only  *)
(* moves forward.  That every entry is handed over in the end is left to   *)
(* model checking.                                                         *)
(***************************************************************************)
EXTENDS StreamDelivery, FiniteSetTheorems, SequenceTheorems, WellFoundedInduction, TLAPS

-----------------------------------------------------------------------------
(* Entries in stream order.                                                *)

\* A non-empty set of numbers has a smallest one.
LEMMA LeastOf ==
    ASSUME NEW S \in SUBSET Nat, S # {}
    PROVE  \E e \in S : \A f \in S : e <= f
<1> DEFINE Less == {ss \in Nat \X Nat : ss[1] < ss[2]}
<1>1. IsWellFoundedOn(Less, Nat)
  BY NatLessThanWellFounded DEF OpToRel
<1> HIDE DEF Less
<1>2. PICK e \in S : \A f \in S : <<f, e>> \notin Less
  BY <1>1, WFMin
<1>3. ASSUME NEW f \in S
      PROVE  e <= f
  <2>1. e \in Nat /\ f \in Nat
    OBVIOUS
  <2>2. f < e => <<f, e>> \in Less
    BY <2>1 DEF Less
  <2> QED
    BY <1>2, <2>1, <2>2
<1> QED
  BY <1>3

\* A non-empty set of entries has a newest one.
LEMMA NewestOf ==
    ASSUME NEW S \in SUBSET Entry, S # {}
    PROVE  \E e \in S : \A f \in S : f <= e
<1> DEFINE T == {Length - e : e \in S}
<1>1. Length \in Nat /\ \A e \in S : e \in Nat /\ e <= Length
  BY StreamAssumption DEF Entry
<1>2. T \in SUBSET Nat /\ T # {}
  BY <1>1
<1>3. PICK d \in T : \A f \in T : d <= f
  BY <1>2, LeastOf
<1>4. PICK e \in S : d = Length - e
  OBVIOUS
<1>5. ASSUME NEW f \in S
      PROVE  f <= e
  <2>1. d <= Length - f
    BY <1>3, <1>5
  <2> QED
    BY <1>1, <1>4, <1>5, <2>1
<1> QED
  BY <1>5

\* Induction up to a bound, over a set of numbers.
LEMMA UpTo ==
    ASSUME NEW N \in Nat, NEW S, 0 \in S,
           \A n \in 0 .. N : n # 0 /\ n - 1 \in S => n \in S
    PROVE  \A n \in 0 .. N : n \in S
<1> DEFINE Bad == {n \in 0 .. N : n \notin S}
<1> SUFFICES ASSUME Bad # {}
             PROVE  FALSE
  OBVIOUS
<1>1. Bad \in SUBSET Nat
  OBVIOUS
<1> HIDE DEF Bad
<1>2. PICK m \in Bad : \A n \in Bad : m <= n
  BY <1>1, LeastOf
<1>3. m \in 0 .. N /\ m # 0 /\ m - 1 \notin S
  BY DEF Bad
<1>4. m - 1 \in Bad
  BY <1>3 DEF Bad
<1> QED
  BY <1>2, <1>3, <1>4

LEMMA EntriesFinite ==
    ASSUME NEW S \in SUBSET Entry
    PROVE  IsFiniteSet(S) /\ Cardinality(S) \in 0 .. Length
<1>1. Length \in Nat
  BY StreamAssumption
<1>2. IsFiniteSet(Entry) /\ Cardinality(Entry) = Length
  BY <1>1, FS_Interval DEF Entry
<1>3. IsFiniteSet(S) /\ Cardinality(S) <= Length
  BY <1>2, FS_Subset
<1> QED
  BY <1>1, <1>3, FS_CardinalityType

Rising(s) == \A k, m \in DOMAIN s : k < m => s[k] < s[m]

\* Every set of entries can be listed in stream order.
LEMMA CanBeOrdered ==
    ASSUME NEW S \in SUBSET Entry
    PROVE  \E s \in [1 .. Cardinality(S) -> S] : Rising(s)
<1> DEFINE Listable(n) ==
                \A T \in SUBSET Entry :
                    Cardinality(T) = n => \E s \in [1 .. n -> T] : Rising(s)
           Good == {n \in 0 .. Length : Listable(n)}
<1>1. Length \in Nat
  BY StreamAssumption
<1>2. 0 \in Good
  <2>1. \A T : <<>> \in [1 .. 0 -> T]
    OBVIOUS
  <2>2. Rising(<<>>)
    BY DEF Rising
  <2>3. Listable(0)
    BY <2>1, <2>2
  <2> QED
    BY <1>1, <2>3
<1>3. ASSUME NEW n \in 0 .. Length, n # 0, n - 1 \in Good
      PROVE  n \in Good
  <2> SUFFICES ASSUME NEW T \in SUBSET Entry, Cardinality(T) = n
               PROVE  \E s \in [1 .. n -> T] : Rising(s)
    OBVIOUS
  <2>1. IsFiniteSet(T) /\ n \in Nat /\ T \subseteq Nat
    BY EntriesFinite, <1>1 DEF Entry
  <2>2. T # {}
    BY <1>3, FS_EmptySet
  <2>3. PICK e \in T : \A f \in T : f <= e
    BY <2>2, NewestOf
  <2> DEFINE U == T \ {e}
  <2>4. Cardinality(U) = n - 1 /\ U \in SUBSET Entry
    BY <2>1, FS_RemoveElement
  <2>5. Listable(n - 1)
    BY <1>3
  <2>6. PICK u \in [1 .. n - 1 -> U] : Rising(u)
    BY <2>4, <2>5
  <2>7. \A k \in 1 .. n - 1 : u[k] \in T /\ u[k] < e
    <3> SUFFICES ASSUME NEW k \in 1 .. n - 1
                 PROVE  u[k] \in T /\ u[k] < e
      OBVIOUS
    <3>1. u[k] \in T /\ u[k] # e
      BY <2>6
    <3>2. u[k] <= e
      BY <2>3, <3>1
    <3>3. u[k] \in Nat /\ e \in Nat
      BY <2>1, <3>1
    <3> QED
      BY <3>1, <3>2, <3>3
  <2> DEFINE s == [k \in 1 .. n |-> IF k = n THEN e ELSE u[k]]
  <2>8. s \in [1 .. n -> T]
    BY <2>1, <2>7
  <2>9. Rising(s)
    BY <2>1, <2>6, <2>7 DEF Rising
  <2> QED
    BY <2>8, <2>9
<1> HIDE DEF Good
<1>4. \A n \in 0 .. Length : n \in Good
  BY <1>1, <1>2, <1>3, UpTo
<1>5. Cardinality(S) \in Good
  BY <1>4, EntriesFinite
<1> QED
  BY <1>5 DEF Good

\* InOrder lists every entry of the set, in stream order.
LEMMA InOrderLists ==
    ASSUME NEW S \in SUBSET Entry
    PROVE  /\ InOrder(S) \in [1 .. Cardinality(S) -> S]
           /\ Rising(InOrder(S))
           /\ \A e \in S : \E k \in 1 .. Cardinality(S) : InOrder(S)[k] = e
<1> DEFINE n == Cardinality(S)
           s == InOrder(S)
<1>1. s \in [1 .. n -> S] /\ Rising(s)
  BY CanBeOrdered DEF InOrder, Rising
<1>2. IsFiniteSet(S) /\ n \in Nat /\ S \subseteq Nat
  BY EntriesFinite DEF Entry
<1>3. IsFiniteSet(1 .. n) /\ Cardinality(1 .. n) = n
  BY <1>2, FS_Interval
<1> HIDE DEF n, s
<1>4. s \in Injection(1 .. n, S)
  <2>1. DOMAIN s = 1 .. n /\ \A k \in 1 .. n : s[k] \in Nat
    BY <1>1, <1>2
  <2>2. \A k, m \in 1 .. n : k < m => s[k] < s[m]
    BY <1>1, <2>1 DEF Rising
  <2>3. \A k, m \in 1 .. n : s[k] = s[m] => k = m
    BY <1>2, <2>1, <2>2
  <2> QED
    BY <1>1, <2>1, <2>3 DEF Injection, IsInjective
<1>5. s \in Surjection(1 .. n, S)
  BY <1>2, <1>3, <1>4, FS_Injection DEF n
<1> QED
  BY <1>1, <1>5 DEF Surjection, n, s


-----------------------------------------------------------------------------
(* What the server, the consumers and the ledger keep.                     *)

ServerInv ==
    /\ published \in 0 .. Length /\ trim \in 0 .. published
    /\ since \in -1 .. published /\ delivered \in since .. published
    /\ owner \in [Entry -> Consumer \cup {Nobody}]
    /\ stale \subseteq {e \in Entry : owner[e] # Nobody}
    /\ \A e \in Entry : owner[e] # Nobody => e <= delivered

\* A message for this daemon is its own; any other is not, or was dropped.
Truthful(m) ==
    /\ m.id <= published
    /\ m.ours => m.id \in Ours
    /\ ~m.ours => m.id \notin Ours \/ m.id <= trim

BatchInv(c) ==
    /\ pc[c] \in {"yield", "ack"} <=> batch[c] # <<>>
    /\ \A k \in DOMAIN batch[c] : Truthful(batch[c][k])
    /\ pc[c] = "ack" => batch[c][1].id \in applied \cup failed

LocalInv ==
    /\ pc \in [Consumer -> {"down", "reclaim", "read", "yield", "ack"}]
    /\ batch \in [Consumer -> Seq(Message)]
    /\ source \in [Consumer -> {"new", "old"}]
    /\ cursor \in [Consumer -> 0 .. Length]
    /\ \A c \in Consumer : BatchInv(c)

LedgerInv ==
    /\ applied \subseteq Ours /\ failed \subseteq Ours
    /\ \A e \in applied \cup failed : e <= published
    /\ row \in applied \cup {0}
    /\ faults \in 0 .. MaxFaults

StreamInv == ServerInv /\ LocalInv /\ LedgerInv

\* The messages made of a set of entries.
LEMMA MessagesList ==
    ASSUME StreamInv, NEW S \in SUBSET Entry
    PROVE  /\ Messages(S) \in Seq(Message) /\ Len(Messages(S)) = Cardinality(S)
           /\ Messages(S) = <<>> <=> S = {}
           /\ \A k \in 1 .. Cardinality(S) :
                Messages(S)[k] = Parsed(InOrder(S)[k], InOrder(S)[k] > trim)
           /\ \A k \in 1 .. Cardinality(S) : InOrder(S)[k] \in S
<1> DEFINE n == Cardinality(S)
           s == InOrder(S)
<1>1. s \in [1 .. n -> S]
  BY InOrderLists
<1>2. n \in Nat /\ (n = 0 <=> S = {})
  BY EntriesFinite, FS_EmptySet
<1> HIDE DEF s, n
<1>3. \A k \in 1 .. n : s[k] \in S
  BY <1>1
<1>4. ASSUME NEW k \in 1 .. n
      PROVE  Parsed(s[k], s[k] > trim) \in Message
  BY <1>3 DEF Parsed, Message
<1>5. Messages(S) = [k \in 1 .. n |-> Parsed(s[k], s[k] > trim)]
  BY DEF Messages, s, n
<1> DEFINE P(k) == Parsed(s[k], s[k] > trim)
<1>6. \A k \in 1 .. n : P(k) \in Message
  BY <1>4
<1> HIDE DEF P
<1>7. Messages(S) = [k \in 1 .. n |-> P(k)]
  BY <1>5 DEF P
<1>8. Messages(S) \in Seq(Message) /\ Len(Messages(S)) = n /\ DOMAIN Messages(S) = 1 .. n
  BY <1>2, <1>6, <1>7
<1>9. Messages(S) = <<>> <=> S = {}
  BY <1>2, <1>8
<1>10. \A k \in 1 .. n : Messages(S)[k] = P(k)
  BY <1>7
<1> QED
  BY <1>3, <1>8, <1>9, <1>10 DEF P, s, n

\* They tell the truth of what is published.
LEMMA MessagesTruthful ==
    ASSUME StreamInv, NEW S \in SUBSET Entry, \A e \in S : e <= published
    PROVE  \A k \in DOMAIN Messages(S) : Truthful(Messages(S)[k])
<1> SUFFICES ASSUME NEW k \in DOMAIN Messages(S)
             PROVE  Truthful(Messages(S)[k])
  OBVIOUS
<1>1. k \in 1 .. Cardinality(S)
  BY MessagesList
<1>2. PICK e \in S : Messages(S)[k] = Parsed(e, e > trim)
  BY <1>1, MessagesList
<1>3. e \in Nat /\ e <= published
  BY StreamAssumption DEF Entry
<1>4. trim \in Nat
  BY DEF StreamInv, ServerInv
<1> DEFINE ours == e > trim /\ e \in Ours
<1>5. ours => e \in Ours
  OBVIOUS
<1>6. ~ours => e \notin Ours \/ e <= trim
  BY <1>3, <1>4
<1>7. Messages(S)[k] = [id |-> e, ours |-> ours]
  BY <1>2 DEF Parsed
<1> HIDE DEF ours
<1>8. Messages(S)[k].id = e /\ Messages(S)[k].ours = ours
  BY <1>7
<1> QED
  BY <1>3, <1>5, <1>6, <1>8 DEF Truthful

\* Consumers that did not move keep what they had.
LEMMA BatchStays ==
    ASSUME NEW c \in Consumer, BatchInv(c), pc'[c] = pc[c], batch'[c] = batch[c],
           published \in Nat, published' \in Nat, trim \in Nat, trim' \in Nat,
           published <= published', trim <= trim',
           batch[c] \in Seq(Message), Length \in Nat,
           applied \subseteq applied', failed \subseteq failed'
    PROVE  BatchInv(c)'
<1>1. ASSUME NEW k \in DOMAIN batch[c]
      PROVE  Truthful(batch[c][k])'
  <2>1. Truthful(batch[c][k]) /\ batch[c][k] \in Message
    BY <1>1 DEF BatchInv
  <2>2. batch[c][k].id \in Nat
    BY <2>1 DEF Message, Entry
  <2>3. (batch[c][k])' = batch[c][k]
    OBVIOUS
  <2> QED
    BY <2>1, <2>2, <2>3 DEF Truthful
<1> QED
  BY <1>1 DEF BatchInv

\* A step of one consumer: the place it goes to and the batch it holds there.
LEMMA ConsumerStep ==
    ASSUME StreamInv, NEW c \in Consumer, NEW v \in {"down", "reclaim", "read", "yield", "ack"},
           NEW b \in Seq(Message), pc' = [pc EXCEPT ![c] = v], batch' = [batch EXCEPT ![c] = b],
           source' \in [Consumer -> {"new", "old"}], cursor' \in [Consumer -> 0 .. Length],
           v \in {"yield", "ack"} <=> b # <<>>,
           \A k \in DOMAIN b : Truthful(b[k]),
           v = "ack" => b[1].id \in applied' \cup failed',
           UNCHANGED <<published, trim>>,
           applied \subseteq applied', failed \subseteq failed'
    PROVE  LocalInv'
<1>1. /\ pc' \in [Consumer -> {"down", "reclaim", "read", "yield", "ack"}]
      /\ batch' \in [Consumer -> Seq(Message)]
  BY DEF StreamInv, LocalInv
<1>2. /\ pc'[c] = v /\ batch'[c] = b
      /\ \A d \in Consumer : d # c => pc'[d] = pc[d] /\ batch'[d] = batch[d]
  BY DEF StreamInv, LocalInv
<1>3. BatchInv(c)'
  BY <1>2 DEF BatchInv, Truthful
<1>4. ASSUME NEW d \in Consumer, d # c
      PROVE  BatchInv(d)'
  <2>1. published \in Nat /\ trim \in Nat /\ Length \in Nat /\ batch[d] \in Seq(Message)
    BY StreamAssumption DEF StreamInv, ServerInv, LocalInv
  <2>2. BatchInv(d)
    BY DEF StreamInv, LocalInv
  <2> QED
    BY <1>2, <1>4, <2>1, <2>2, BatchStays
<1> QED
  BY <1>1, <1>3, <1>4 DEF LocalInv


\* Nobody moves; the server publishes or drops an entry, or one ages.
LEMMA LocalStays ==
    ASSUME StreamInv, UNCHANGED <<local, applied, failed>>,
           published' \in Nat, trim' \in Nat, published <= published', trim <= trim'
    PROVE  LocalInv'
<1>1. UNCHANGED <<pc, batch, source, cursor, applied, failed>>
  BY DEF local
<1>2. ASSUME NEW c \in Consumer
      PROVE  BatchInv(c)'
  <2>1. published \in Nat /\ trim \in Nat /\ Length \in Nat /\ batch[c] \in Seq(Message)
    BY StreamAssumption DEF StreamInv, ServerInv, LocalInv
  <2>2. BatchInv(c)
    BY DEF StreamInv, LocalInv
  <2> QED
    BY <1>1, <2>1, <2>2, BatchStays
<1> QED
  BY <1>1, <1>2 DEF StreamInv, LocalInv

\* A consumer that is not working off a batch has none.
LEMMA EmptyHanded ==
    ASSUME StreamInv, NEW c \in Consumer, pc[c] \in {"down", "reclaim", "read"}
    PROVE  batch[c] = <<>> /\ batch = [batch EXCEPT ![c] = <<>>]
<1>1. batch[c] = <<>> /\ batch \in [Consumer -> Seq(Message)]
  BY DEF StreamInv, LocalInv, BatchInv
<1> QED
  BY <1>1

LEMMA ServerNumbers ==
    ASSUME StreamInv
    PROVE  /\ Length \in Nat /\ published \in Nat /\ trim \in Nat
           /\ since \in Int /\ delivered \in Int
           /\ published <= Length /\ trim <= published /\ since <= published
           /\ since <= delivered /\ delivered <= published /\ -1 <= since
  BY StreamAssumption DEF StreamInv, ServerInv

\* The entries sent are the next ones, up to the newest of them.
LEMMA Delivered ==
    ASSUME StreamInv, NEW c \in Consumer, Deliver(c)
    PROVE  LET sent == Oldest(Unread, BatchCount) IN
           /\ sent \in SUBSET Entry /\ delivered' \in sent
           /\ \A e \in sent : delivered < e /\ e <= delivered' /\ e <= published /\ trim < e
           /\ \A e \in Entry : delivered < e /\ e <= delivered' => e \in sent \/ e <= trim
           /\ owner' = [e \in Entry |-> IF e \in sent THEN c ELSE owner[e]]
           /\ UNCHANGED <<published, trim, since, stale>>
<1> DEFINE sent == Oldest(Unread, BatchCount)
<1>1. /\ sent # {} /\ delivered' = CHOOSE e \in sent : \A f \in sent : f <= e
      /\ owner' = [e \in Entry |-> IF e \in sent THEN c ELSE owner[e]]
      /\ UNCHANGED <<published, trim, since, stale>>
  BY DEF Deliver
<1>2. Unread \in SUBSET Entry /\ sent \subseteq Unread
  BY DEF Unread, Oldest
<1>3. delivered' \in sent /\ \A f \in sent : f <= delivered'
  <2>1. \E e \in sent : \A f \in sent : f <= e
    BY <1>1, <1>2, NewestOf
  <2> HIDE DEF sent
  <2> QED
    BY <1>1, <2>1
<1>4. \A e \in sent : delivered < e /\ e <= published /\ trim < e
  <2> HIDE DEF sent
  <2> QED
    BY <1>2, ServerNumbers DEF Unread, Entry
<1>5. ASSUME NEW e \in Entry, delivered < e, e <= delivered', ~(e <= trim)
      PROVE  e \in sent
  <2>1. delivered' \in Entry /\ delivered' \in Unread
    BY <1>2, <1>3
  <2>2. e \in Unread
    <3>1. e \in Nat /\ delivered' \in Nat /\ delivered' <= published
      BY <2>1, StreamAssumption DEF Unread, Entry
    <3>2. e <= published /\ e > delivered /\ e > trim
      BY <1>5, <3>1, ServerNumbers
    <3> QED
      BY <3>2 DEF Unread
  <2> DEFINE before(x) == {f \in Unread : f < x}
  <2>3. before(e) \in SUBSET before(delivered') /\ before(delivered') \in SUBSET Entry
    <3>1. Unread \subseteq Nat /\ e \in Nat /\ delivered' \in Nat
      BY <1>2, <2>1, StreamAssumption DEF Entry
    <3>2. \A f \in Unread : f < e => f < delivered'
      BY <1>5, <3>1
    <3> QED
      BY <1>2, <3>2
  <2>4. /\ Cardinality(before(e)) <= Cardinality(before(delivered'))
        /\ Cardinality(before(e)) \in Nat /\ Cardinality(before(delivered')) \in Nat
    BY <2>3, EntriesFinite, FS_Subset
  <2>5. Cardinality(before(delivered')) < BatchCount
    BY <1>3 DEF Oldest
  <2>6. Cardinality(before(e)) < BatchCount
    <3> HIDE DEF before
    <3> QED
      BY <2>4, <2>5, StreamAssumption
  <2> QED
    BY <2>2, <2>6 DEF Oldest
<1> HIDE DEF sent
<1>6. \A e \in Entry : delivered < e /\ e <= delivered' => e \in sent \/ e <= trim
  BY <1>5
<1> QED
  BY <1>1, <1>2, <1>3, <1>4, <1>6 DEF sent

LEMMA DeliverKeeps ==
    ASSUME StreamInv, NEW c \in Consumer, Deliver(c)
    PROVE  ServerInv'
<1> DEFINE sent == Oldest(Unread, BatchCount)
<1>1. /\ sent \in SUBSET Entry /\ delivered' \in sent
      /\ \A e \in sent : delivered < e /\ e <= delivered' /\ e <= published /\ trim < e
      /\ owner' = [e \in Entry |-> IF e \in sent THEN c ELSE owner[e]]
      /\ UNCHANGED <<published, trim, since, stale>>
  BY Delivered
<1> HIDE DEF sent
<1>2. delivered' \in since .. published /\ delivered <= delivered' /\ delivered' \in Int
  BY <1>1, ServerNumbers DEF Entry
<1>3. owner' \in [Entry -> Consumer \cup {Nobody}]
  BY <1>1 DEF StreamInv, ServerInv
<1>4. c # Nobody
  BY StreamAssumption
<1>5. \A e \in Entry : owner'[e] = IF e \in sent THEN c ELSE owner[e]
  BY <1>1
<1>6. stale' \subseteq {e \in Entry : owner'[e] # Nobody}
  BY <1>1, <1>4, <1>5 DEF StreamInv, ServerInv
<1>7. ASSUME NEW e \in Entry, owner'[e] # Nobody
      PROVE  e <= delivered'
  <2>1. CASE e \in sent
    BY <1>1, <2>1
  <2>2. CASE e \notin sent
    <3>1. e <= delivered /\ e \in Int
      BY <1>5, <1>7, <2>2 DEF StreamInv, ServerInv, Entry
    <3> QED
      BY <1>2, <3>1, ServerNumbers
  <2> QED
    BY <2>1, <2>2
<1> QED
  BY <1>1, <1>2, <1>3, <1>6, <1>7 DEF StreamInv, ServerInv

\* An acknowledged entry is pending no longer.
LEMMA XAckKeeps ==
    ASSUME StreamInv, NEW e \in Entry, XAck(e)
    PROVE  ServerInv'
<1>1. /\ owner' = [owner EXCEPT ![e] = Nobody] /\ stale' = stale \ {e}
      /\ UNCHANGED <<published, trim, since, delivered>>
  BY DEF XAck
<1>2. owner' \in [Entry -> Consumer \cup {Nobody}]
  BY <1>1 DEF StreamInv, ServerInv
<1>3. \A f \in Entry : owner'[f] = IF f = e THEN Nobody ELSE owner[f]
  BY <1>1 DEF StreamInv, ServerInv
<1> QED
  BY <1>1, <1>2, <1>3 DEF StreamInv, ServerInv


-----------------------------------------------------------------------------
(* Every action keeps it.                                                  *)

\* A consumer that goes where no batch is held.
LEMMA IdleStep ==
    ASSUME StreamInv, NEW c \in Consumer, NEW v \in {"down", "reclaim", "read"},
           pc' = [pc EXCEPT ![c] = v], batch' = [batch EXCEPT ![c] = <<>>],
           source' \in [Consumer -> {"new", "old"}], cursor' \in [Consumer -> 0 .. Length],
           UNCHANGED <<published, trim, applied, failed>>
    PROVE  LocalInv'
<1> DEFINE b == <<>>
<1>1. b \in Seq(Message) /\ b = <<>> /\ DOMAIN b = {}
  OBVIOUS
<1>2. batch' = [batch EXCEPT ![c] = b]
  OBVIOUS
<1> HIDE DEF b
<1>3. \A k \in DOMAIN b : Truthful(b[k])
  BY <1>1
<1> QED
  BY <1>1, <1>2, <1>3, ConsumerStep

LEMMA StreamMoves ==
    ASSUME StreamInv, Publish \/ Trim \/ \E e \in Entry : Age(e)
    PROVE  StreamInv'
<1>1. CASE Publish
  <2>1. published' = published + 1 /\ published < Length
        /\ UNCHANGED <<trim, since, delivered, owner, stale, local, ledger, faults>>
    BY <1>1 DEF Publish
  <2>2. ServerInv'
    BY <2>1, ServerNumbers DEF StreamInv, ServerInv
  <2>3. LocalInv'
    BY <2>1, ServerNumbers, LocalStays DEF ledger
  <2>4. LedgerInv'
    <3>1. UNCHANGED <<applied, failed, row, faults>>
      BY <2>1 DEF ledger
    <3>2. \A e \in applied \cup failed : e <= published'
      BY <2>1, ServerNumbers, StreamAssumption DEF StreamInv, LedgerInv, Entry
    <3> QED
      BY <3>1, <3>2 DEF StreamInv, LedgerInv
  <2> QED
    BY <2>2, <2>3, <2>4 DEF StreamInv
<1>2. CASE Trim
  <2>1. trim' = trim + 1 /\ trim < published
        /\ UNCHANGED <<published, since, delivered, owner, stale, local, ledger, faults>>
    BY <1>2 DEF Trim
  <2>2. ServerInv'
    BY <2>1, ServerNumbers DEF StreamInv, ServerInv
  <2>3. LocalInv'
    BY <2>1, ServerNumbers, LocalStays DEF ledger
  <2> QED
    BY <2>1, <2>2, <2>3 DEF StreamInv, LedgerInv, ledger
<1>3. ASSUME NEW e \in Entry, Age(e)
      PROVE  StreamInv'
  <2>1. stale' = stale \cup {e} /\ owner[e] # Nobody
        /\ UNCHANGED <<published, trim, since, delivered, owner, local, ledger, faults>>
    BY <1>3 DEF Age
  <2>2. ServerInv'
    BY <2>1 DEF StreamInv, ServerInv
  <2>3. LocalInv'
    BY <2>1, ServerNumbers, LocalStays DEF ledger
  <2> QED
    BY <2>1, <2>2, <2>3 DEF StreamInv, LedgerInv, ledger
<1> QED
  BY <1>1, <1>2, <1>3

LEMMA StartKeeps ==
    ASSUME StreamInv, NEW c \in Consumer, Start(c)
    PROVE  StreamInv'
<1>1. /\ pc[c] = "down" /\ pc' = [pc EXCEPT ![c] = "reclaim"]
      /\ cursor' = [cursor EXCEPT ![c] = 0]
      /\ UNCHANGED <<published, trim, owner, stale, batch, source, ledger, faults>>
  BY DEF Start
<1>2. \/ since' = published /\ delivered' = published
      \/ since' = since /\ delivered' = delivered
  BY DEF Start, StreamInv, ServerInv
<1>3. \A e \in Entry : owner[e] # Nobody => e <= delivered'
  <2> SUFFICES ASSUME NEW e \in Entry, owner[e] # Nobody
               PROVE  e <= delivered'
    OBVIOUS
  <2>1. e <= delivered /\ e \in Nat
    BY StreamAssumption DEF StreamInv, ServerInv, Entry
  <2> QED
    BY <1>2, <2>1, ServerNumbers
<1>4. ServerInv'
  BY <1>1, <1>2, <1>3, ServerNumbers DEF StreamInv, ServerInv
<1>5. batch' = [batch EXCEPT ![c] = <<>>]
  BY <1>1, EmptyHanded
<1>6. cursor' \in [Consumer -> 0 .. Length]
  BY <1>1, ServerNumbers DEF StreamInv, LocalInv
<1>7. LocalInv'
  <2>1. source' \in [Consumer -> {"new", "old"}]
    BY <1>1 DEF StreamInv, LocalInv
  <2>2. UNCHANGED <<published, trim, applied, failed>>
    BY <1>1 DEF ledger
  <2> QED
    BY <1>1, <1>5, <1>6, <2>1, <2>2, IdleStep
<1> QED
  BY <1>1, <1>4, <1>7 DEF StreamInv, LedgerInv, ledger

\* What a reclaim takes over was pending.
LEMMA ReclaimKeeps ==
    ASSUME StreamInv, NEW c \in Consumer, Reclaim(c)
    PROVE  StreamInv'
<1> DEFINE pending == {e \in Entry : owner[e] # Nobody /\ e >= cursor[c]}
           claimed == Oldest(pending \cap stale, BatchCount)
           beyond  == {e \in pending : \A f \in claimed : f < e}
           full    == Cardinality(claimed) = BatchCount /\ beyond # {}
           next    == IF full THEN CHOOSE e \in beyond : \A f \in beyond : e <= f ELSE 0
           b       == Messages(claimed)
           v       == IF claimed = {} THEN "read" ELSE "yield"
<1>1. /\ owner' = [e \in Entry |-> IF e \in claimed THEN c ELSE owner[e]]
      /\ stale' = stale \ claimed
      /\ batch' = [batch EXCEPT ![c] = b]
      /\ cursor' = [cursor EXCEPT ![c] = next]
      /\ source' = [source EXCEPT ![c] = "old"]
      /\ pc' = [pc EXCEPT ![c] = v]
      /\ UNCHANGED <<published, trim, since, delivered, ledger, faults>>
  BY DEF Reclaim
<1>2. claimed \in SUBSET Entry /\ \A e \in claimed : owner[e] # Nobody
  BY DEF Oldest
<1>3. beyond \in SUBSET Nat /\ beyond \in SUBSET Entry
  BY DEF Entry
<1> HIDE DEF claimed
<1>4. next \in 0 .. Length
  <2>1. CASE full
    <3>1. \E e \in beyond : \A f \in beyond : e <= f
      BY <1>3, <2>1, LeastOf
    <3>2. next \in beyond
      <4> HIDE DEF beyond
      <4> QED
        BY <2>1, <3>1
    <3> QED
      BY <1>3, <3>2, ServerNumbers DEF Entry
  <2>2. CASE ~full
    BY <2>2, ServerNumbers
  <2> QED
    BY <2>1, <2>2
<1> HIDE DEF beyond, full, next, b, v
<1>5. ServerInv'
  <2>1. c # Nobody
    BY StreamAssumption
  <2>2. \A e \in Entry : owner'[e] = IF e \in claimed THEN c ELSE owner[e]
    BY <1>1
  <2>3. \A e \in Entry : owner'[e] # Nobody <=> owner[e] # Nobody
    BY <1>2, <2>1, <2>2
  <2>4. owner' \in [Entry -> Consumer \cup {Nobody}]
    BY <1>1 DEF StreamInv, ServerInv
  <2> QED
    BY <1>1, <2>3, <2>4 DEF StreamInv, ServerInv
<1>6. LocalInv'
  <2>1. b \in Seq(Message) /\ (b = <<>> <=> claimed = {})
    BY <1>2, MessagesList DEF b
  <2>2. \A e \in claimed : e <= published
    <3> SUFFICES ASSUME NEW e \in claimed
                 PROVE  e <= published
      OBVIOUS
    <3>1. e <= delivered /\ e \in Nat
      BY <1>2, StreamAssumption DEF StreamInv, ServerInv, Entry
    <3> QED
      BY <3>1, ServerNumbers
  <2>3. \A k \in DOMAIN b : Truthful(b[k])
    BY <1>2, <2>2, MessagesTruthful DEF b
  <2>4. v \in {"read", "yield"} /\ (v = "yield" <=> b # <<>>)
    BY <2>1 DEF v
  <2>5. source' \in [Consumer -> {"new", "old"}] /\ cursor' \in [Consumer -> 0 .. Length]
    BY <1>1, <1>4 DEF StreamInv, LocalInv
  <2>6. UNCHANGED <<published, trim, applied, failed>>
    BY <1>1 DEF ledger
  <2> QED
    BY <1>1, <2>1, <2>3, <2>4, <2>5, <2>6, ConsumerStep
<1> QED
  BY <1>1, <1>5, <1>6 DEF StreamInv, LedgerInv, ledger


LEMMA IntervalKeeps ==
    ASSUME StreamInv, NEW c \in Consumer, IntervalPasses(c)
    PROVE  StreamInv'
<1>1. /\ pc[c] = "read" /\ pc' = [pc EXCEPT ![c] = "reclaim"]
      /\ cursor' = [cursor EXCEPT ![c] = 0]
      /\ UNCHANGED <<server, batch, source, ledger, faults>>
  BY DEF IntervalPasses
<1>2. batch' = [batch EXCEPT ![c] = <<>>]
  BY <1>1, EmptyHanded
<1>3. cursor' \in [Consumer -> 0 .. Length] /\ source' \in [Consumer -> {"new", "old"}]
  BY <1>1, ServerNumbers DEF StreamInv, LocalInv
<1>4. UNCHANGED <<published, trim, applied, failed>>
  BY <1>1 DEF ledger, server
<1>5. LocalInv'
  BY <1>1, <1>2, <1>3, <1>4, IdleStep
<1> QED
  BY <1>1, <1>5 DEF StreamInv, ServerInv, LedgerInv, server, ledger

LEMMA ReadKeeps ==
    ASSUME StreamInv, NEW c \in Consumer, Read(c)
    PROVE  StreamInv'
<1> DEFINE sent == Oldest(Unread, BatchCount)
           b == Messages(sent)
<1>1. /\ Deliver(c) /\ sent # {}
      /\ batch' = [batch EXCEPT ![c] = b] /\ source' = [source EXCEPT ![c] = "new"]
      /\ pc' = [pc EXCEPT ![c] = "yield"]
      /\ UNCHANGED <<cursor, ledger, faults, published, trim>>
  BY DEF Read, Deliver
<1>2. sent \in SUBSET Entry /\ \A e \in sent : e <= published
  BY <1>1, Delivered
<1> HIDE DEF sent
<1>3. /\ b \in Seq(Message) /\ b # <<>>
      /\ \A k \in DOMAIN b : Truthful(b[k])
  BY <1>1, <1>2, MessagesList, MessagesTruthful
<1> HIDE DEF b
<1>4. source' \in [Consumer -> {"new", "old"}] /\ cursor' \in [Consumer -> 0 .. Length]
  BY <1>1 DEF StreamInv, LocalInv
<1>5. UNCHANGED <<published, trim, applied, failed>>
  BY <1>1 DEF ledger
<1>6. LocalInv'
  BY <1>1, <1>3, <1>4, <1>5, ConsumerStep
<1>7. ServerInv'
  BY <1>1, DeliverKeeps
<1> QED
  BY <1>1, <1>6, <1>7 DEF StreamInv, LedgerInv, ledger

\* A read whose answer is lost.
LEMMA ReadLostKeeps ==
    ASSUME StreamInv, NEW c \in Consumer, ReadLost(c)
    PROVE  StreamInv'
<1>1. /\ Deliver(c) /\ faults < MaxFaults /\ faults' = faults + 1
      /\ cursor' = [cursor EXCEPT ![c] = 0] /\ pc[c] = "read"
      /\ UNCHANGED <<batch, source, ledger, published, trim>>
  BY DEF ReadLost, Deliver
<1>2. PICK v \in {"read", "reclaim"} : pc' = [pc EXCEPT ![c] = v]
  BY DEF ReadLost
<1>3. batch' = [batch EXCEPT ![c] = <<>>]
  BY <1>1, EmptyHanded
<1>4. cursor' \in [Consumer -> 0 .. Length] /\ source' \in [Consumer -> {"new", "old"}]
  BY <1>1, ServerNumbers DEF StreamInv, LocalInv
<1>5. UNCHANGED <<published, trim, applied, failed>>
  BY <1>1 DEF ledger
<1>6. LocalInv'
  BY <1>2, <1>3, <1>4, <1>5, IdleStep
<1>7. ServerInv'
  BY <1>1, DeliverKeeps
<1>8. faults' \in 0 .. MaxFaults
  BY <1>1, StreamAssumption DEF StreamInv, LedgerInv
<1> QED
  BY <1>1, <1>6, <1>7, <1>8 DEF StreamInv, LedgerInv, ledger

\* The message a consumer is at.
LEMMA HeadOfBatch ==
    ASSUME StreamInv, NEW c \in Consumer, pc[c] \in {"yield", "ack"}
    PROVE  /\ batch[c] \in Seq(Message) /\ batch[c] # <<>> /\ 1 \in DOMAIN batch[c]
           /\ Head(batch[c]) = batch[c][1] /\ Head(batch[c]) \in Message
           /\ Head(batch[c]).id \in Entry /\ Truthful(Head(batch[c]))
<1>1. batch[c] \in Seq(Message) /\ batch[c] # <<>>
  BY DEF StreamInv, LocalInv, BatchInv
<1>2. 1 \in DOMAIN batch[c] /\ Head(batch[c]) = batch[c][1] /\ Head(batch[c]) \in Message
  BY <1>1
<1>3. Truthful(batch[c][1])
  BY <1>2 DEF StreamInv, LocalInv, BatchInv
<1> QED
  BY <1>1, <1>2, <1>3 DEF Message

\* A message is written to the ledger, or the write raises.
LEMMA WriteKeeps ==
    ASSUME StreamInv, NEW c \in Consumer, Apply(c) \/ ApplyFails(c)
    PROVE  StreamInv'
<1> DEFINE id == Head(batch[c]).id
<1>1. /\ pc[c] = "yield" /\ Head(batch[c]).ours /\ pc' = [pc EXCEPT ![c] = "ack"]
      /\ UNCHANGED <<server, batch, source, cursor, faults>>
      /\ \/ applied' = applied \cup {id} /\ row' = id /\ failed' = failed
         \/ applied' = applied /\ row' = row /\ failed' = failed \cup {id}
  BY DEF Apply, ApplyFails
<1>2. /\ batch[c] \in Seq(Message) /\ batch[c] # <<>> /\ id = batch[c][1].id
      /\ id \in Ours /\ id <= published
  BY <1>1, HeadOfBatch DEF Truthful
<1>3. batch' = [batch EXCEPT ![c] = batch[c]]
  BY <1>1 DEF StreamInv, LocalInv
<1>4. \A k \in DOMAIN batch[c] : Truthful(batch[c][k])
  BY DEF StreamInv, LocalInv, BatchInv
<1> HIDE DEF id
<1>5. LocalInv'
  <2>1. source' \in [Consumer -> {"new", "old"}] /\ cursor' \in [Consumer -> 0 .. Length]
    BY <1>1 DEF StreamInv, LocalInv
  <2>2. /\ UNCHANGED <<published, trim>> /\ applied \subseteq applied' /\ failed \subseteq failed'
        /\ batch[c][1].id \in applied' \cup failed'
    BY <1>1, <1>2 DEF server
  <2> DEFINE b == batch[c]
  <2>3. b \in Seq(Message) /\ b # <<>> /\ batch' = [batch EXCEPT ![c] = b]
        /\ b[1].id \in applied' \cup failed' /\ \A k \in DOMAIN b : Truthful(b[k])
    BY <1>2, <1>3, <1>4, <2>2
  <2> HIDE DEF b
  <2> QED
    BY <1>1, <2>1, <2>2, <2>3, ConsumerStep
<1> QED
  BY <1>1, <1>2, <1>5 DEF StreamInv, ServerInv, LedgerInv, server


\* The rest of a batch.
LEMMA TailOfBatch ==
    ASSUME StreamInv, NEW c \in Consumer, pc[c] \in {"yield", "ack"}
    PROVE  /\ Tail(batch[c]) \in Seq(Message)
           /\ Tail(batch[c]) # <<>> <=> Len(batch[c]) > 1
           /\ \A k \in DOMAIN Tail(batch[c]) :
                k \in Nat /\ k + 1 \in DOMAIN batch[c] /\ Tail(batch[c])[k] = batch[c][k + 1]
<1> DEFINE b == batch[c]
<1>1. b \in Seq(Message) /\ b # <<>>
  BY HeadOfBatch
<1> HIDE DEF b
<1>2. Len(b) \in Nat \ {0} /\ DOMAIN b = 1 .. Len(b)
  BY <1>1
<1>3. Tail(b) \in Seq(Message) /\ Len(Tail(b)) = Len(b) - 1
  BY <1>1, <1>2
<1>4. DOMAIN Tail(b) = 1 .. Len(b) - 1
  BY <1>3
<1>5. \A k \in 1 .. Len(b) - 1 : Tail(b)[k] = b[k + 1]
  BY <1>1, <1>2
<1>6. Tail(b) # <<>> <=> Len(b) > 1
  <2> DEFINE rest == Tail(b)
  <2>1. rest \in Seq(Message) /\ Len(rest) = Len(b) - 1
    BY <1>3
  <2> HIDE DEF rest
  <2>2. rest = <<>> <=> Len(rest) = 0
    BY <2>1, EmptySeq
  <2> QED
    BY <1>2, <2>1, <2>2 DEF rest
<1> QED
  BY <1>2, <1>3, <1>4, <1>5, <1>6 DEF b

LEMMA AckKeeps ==
    ASSUME StreamInv, NEW c \in Consumer, Ack(c)
    PROVE  StreamInv'
<1> DEFINE b == Tail(batch[c])
           v == IF Len(batch[c]) > 1 THEN "yield"
                ELSE IF source[c] = "old" /\ cursor[c] # 0 THEN "reclaim" ELSE "read"
<1>1. /\ pc[c] \in {"yield", "ack"} /\ XAck(Head(batch[c]).id)
      /\ batch' = [batch EXCEPT ![c] = b] /\ pc' = [pc EXCEPT ![c] = v]
      /\ UNCHANGED <<source, cursor, ledger, faults, published, trim>>
  BY DEF Ack, MayAck, XAck, StreamInv, LocalInv
<1>2. ServerInv'
  BY <1>1, HeadOfBatch, XAckKeeps
<1>3. b \in Seq(Message) /\ (b # <<>> <=> Len(batch[c]) > 1)
  BY <1>1, TailOfBatch
<1>4. \A k \in DOMAIN b : Truthful(b[k])
  BY <1>1, TailOfBatch DEF StreamInv, LocalInv, BatchInv
<1> HIDE DEF b
<1>5. v \in {"yield", "reclaim", "read"} /\ (v = "yield" <=> b # <<>>)
  BY <1>3
<1> HIDE DEF v
<1>6. source' \in [Consumer -> {"new", "old"}] /\ cursor' \in [Consumer -> 0 .. Length]
  BY <1>1 DEF StreamInv, LocalInv
<1>7. UNCHANGED <<published, trim, applied, failed>>
  BY <1>1 DEF ledger
<1>8. LocalInv'
  BY <1>1, <1>3, <1>4, <1>5, <1>6, <1>7, ConsumerStep
<1> QED
  BY <1>1, <1>2, <1>8 DEF StreamInv, LedgerInv, ledger

LEMMA LostKeeps ==
    ASSUME StreamInv, NEW c \in Consumer, ConnectionLost(c) \/ Die(c)
    PROVE  StreamInv'
<1>1. /\ faults < MaxFaults /\ faults' = faults + 1 /\ batch' = [batch EXCEPT ![c] = <<>>]
      /\ \E v \in {"down", "reclaim"} : pc' = [pc EXCEPT ![c] = v]
      /\ \E k \in {0, cursor[c]} : cursor' = [cursor EXCEPT ![c] = k]
      /\ UNCHANGED <<source, ledger, published, trim>>
      /\ UNCHANGED server \/ (pc[c] \in {"yield", "ack"} /\ XAck(Head(batch[c]).id))
  <2>1. cursor = [cursor EXCEPT ![c] = cursor[c]]
    BY DEF StreamInv, LocalInv
  <2>2. CASE Die(c)
    BY <2>1, <2>2 DEF Die, server
  <2>3. CASE ConnectionLost(c)
    BY <2>3 DEF ConnectionLost, MayAck, XAck, server
  <2> QED
    BY <2>2, <2>3
<1>2. ServerInv'
  <2>1. CASE UNCHANGED server
    BY <2>1 DEF server, StreamInv, ServerInv
  <2>2. CASE pc[c] \in {"yield", "ack"} /\ XAck(Head(batch[c]).id)
    BY <2>2, HeadOfBatch, XAckKeeps
  <2> QED
    BY <1>1, <2>1, <2>2
<1>3. cursor' \in [Consumer -> 0 .. Length] /\ source' \in [Consumer -> {"new", "old"}]
  BY <1>1, ServerNumbers DEF StreamInv, LocalInv
<1>4. UNCHANGED <<published, trim, applied, failed>>
  BY <1>1 DEF ledger
<1>5. PICK v \in {"down", "reclaim"} : pc' = [pc EXCEPT ![c] = v]
  BY <1>1
<1>6. LocalInv'
  BY <1>1, <1>3, <1>4, <1>5, IdleStep
<1>7. faults' \in 0 .. MaxFaults
  BY <1>1, StreamAssumption DEF StreamInv, LedgerInv
<1> QED
  BY <1>1, <1>2, <1>6, <1>7 DEF StreamInv, LedgerInv, ledger

LEMMA InitStream == Init => StreamInv
<1> SUFFICES ASSUME Init
             PROVE  StreamInv
  OBVIOUS
<1>1. ServerInv
  BY StreamAssumption DEF Init, ServerInv
<1>2. LocalInv
  BY StreamAssumption DEF Init, LocalInv, BatchInv
<1>3. LedgerInv
  BY StreamAssumption DEF Init, LedgerInv
<1> QED
  BY <1>1, <1>2, <1>3 DEF StreamInv

LEMMA NextStream == StreamInv /\ [Next]_vars => StreamInv'
<1> SUFFICES ASSUME StreamInv, [Next]_vars
             PROVE  StreamInv'
  OBVIOUS
<1>1. CASE UNCHANGED vars
  BY <1>1 DEF vars, server, local, ledger, StreamInv, ServerInv, LocalInv, LedgerInv,
              BatchInv, Truthful
<1>2. CASE Next
  BY <1>2, StreamMoves, StartKeeps, ReclaimKeeps, IntervalKeeps, ReadKeeps, ReadLostKeeps,
     WriteKeeps, AckKeeps, LostKeeps DEF Next, Run
<1> QED
  BY <1>1, <1>2

\* The server, the consumers and the ledger stay well typed, whoever fails.
THEOREM StreamTypes == Spec => []TypeOK
<1>1. StreamInv => TypeOK
  BY DEF StreamInv, ServerInv, LocalInv, LedgerInv, TypeOK
<1> QED
  BY <1>1, InitStream, NextStream, PTL DEF Spec


-----------------------------------------------------------------------------
(* The delivery contract: every step is one of AtLeastOnce, or leaves what *)
(* is owed and what was handed over as they are.                           *)

Owed == {e \in Ours : since # -1 /\ e > since /\ e <= published /\ ~Acked(e)}

HandedOver == applied \cup failed \cup {e \in Ours : e <= trim}

LEMMA Stutters ==
    ASSUME Owed' = Owed, HandedOver' = HandedOver
    PROVE  [Contract!Next]_(Contract!vars)
  BY DEF Contract!vars, Owed, HandedOver

LEMMA Owes ==
    ASSUME NEW e \in Ours, e \notin Owed \cup HandedOver,
           Owed' = Owed \cup {e}, HandedOver' = HandedOver
    PROVE  [Contract!Next]_(Contract!vars)
<1>1. Contract!Owe(e)
  BY DEF Contract!Owe, Owed, HandedOver
<1> QED
  BY <1>1 DEF Contract!Next

LEMMA Handles ==
    ASSUME NEW e \in Ours, Owed' = Owed, HandedOver' = HandedOver \cup {e}
    PROVE  [Contract!Next]_(Contract!vars)
<1>1. CASE e \in HandedOver
  BY <1>1, Stutters
<1>2. CASE e \notin HandedOver
  <2>1. Contract!Handle(e)
    BY <1>2 DEF Contract!Handle, Owed, HandedOver
  <2> QED
    BY <2>1 DEF Contract!Next
<1> QED
  BY <1>1, <1>2

LEMMA Forgets ==
    ASSUME Owed' \subseteq Owed, Owed \ Owed' \subseteq HandedOver, HandedOver' = HandedOver
    PROVE  [Contract!Next]_(Contract!vars)
<1>1. PICK S \in SUBSET Ours : S = Owed \ Owed'
  BY DEF Owed
<1>2. Contract!Forget(S)
  BY <1>1 DEF Contract!Forget, Owed, HandedOver
<1> QED
  BY <1>2 DEF Contract!Next

\* What is owed depends on the server alone, what was handed over on the ledger too.
LEMMA OwedStays ==
    ASSUME UNCHANGED <<since, published, delivered>>,
           \A e \in Ours : (owner'[e] = Nobody) <=> (owner[e] = Nobody)
    PROVE  Owed' = Owed
  BY DEF Owed, Acked

LEMMA HandedStays ==
    ASSUME UNCHANGED <<applied, failed, trim>>
    PROVE  HandedOver' = HandedOver
  BY DEF HandedOver

LEMMA PublishContract ==
    ASSUME StreamInv, Publish
    PROVE  [Contract!Next]_(Contract!vars)
<1> DEFINE new == published + 1
<1>1. /\ published' = new
      /\ UNCHANGED <<trim, since, delivered, owner, applied, failed>>
  BY DEF Publish, ledger
<1>2. HandedOver' = HandedOver
  BY <1>1, HandedStays
<1>3. Ours \subseteq Nat
  BY StreamAssumption DEF Entry
<1>4. \A e \in Ours : e <= new <=> e <= published \/ e = new
  BY <1>3, ServerNumbers
<1>5. CASE new \in Ours /\ since # -1
  <2>1. new > since /\ ~Acked(new)
    BY ServerNumbers DEF Acked
  <2>2. Owed' = Owed \cup {new}
    BY <1>1, <1>4, <1>5, <2>1 DEF Owed, Acked
  <2>3. new \notin Owed \cup HandedOver
    <3>1. ~(new <= published) /\ ~(new <= trim)
      BY ServerNumbers
    <3> QED
      BY <3>1 DEF Owed, HandedOver, StreamInv, LedgerInv
  <2> QED
    BY <1>2, <1>5, <2>2, <2>3, Owes
<1>6. CASE ~(new \in Ours /\ since # -1)
  <2>1. Owed' = Owed
    BY <1>1, <1>4, <1>6 DEF Owed, Acked
  <2> QED
    BY <1>2, <2>1, Stutters
<1> QED
  BY <1>5, <1>6

\* An entry the stream drops is lost to its own limits.
LEMMA TrimContract ==
    ASSUME StreamInv, Trim
    PROVE  [Contract!Next]_(Contract!vars)
<1> DEFINE old == trim + 1
<1>1. trim' = old /\ UNCHANGED <<published, since, delivered, owner, applied, failed>>
  BY DEF Trim, ledger
<1>2. Owed' = Owed
  BY <1>1, OwedStays
<1>3. Ours \subseteq Nat
  BY StreamAssumption DEF Entry
<1>4. \A e \in Ours : e <= old <=> e <= trim \/ e = old
  BY <1>3, ServerNumbers
<1>5. CASE old \in Ours
  <2>1. HandedOver' = HandedOver \cup {old}
    BY <1>1, <1>4, <1>5 DEF HandedOver
  <2> QED
    BY <1>2, <1>5, <2>1, Handles
<1>6. CASE old \notin Ours
  <2>1. HandedOver' = HandedOver
    BY <1>1, <1>4, <1>6 DEF HandedOver
  <2> QED
    BY <1>2, <2>1, Stutters
<1> QED
  BY <1>5, <1>6

\* A new group owes nothing yet.
LEMMA StartContract ==
    ASSUME StreamInv, NEW c \in Consumer, Start(c)
    PROVE  [Contract!Next]_(Contract!vars)
<1>1. UNCHANGED <<published, trim, owner, applied, failed>>
  BY DEF Start, ledger
<1>2. HandedOver' = HandedOver
  BY <1>1, HandedStays
<1>3. CASE since = -1
  <2>1. since' = published
    BY <1>3 DEF Start
  <2>2. \A e \in Ours : ~(e > published /\ e <= published)
    BY ServerNumbers, StreamAssumption DEF Entry
  <2>3. Owed = {} /\ Owed' = {}
    BY <1>1, <1>3, <2>1, <2>2 DEF Owed
  <2> QED
    BY <1>2, <2>3, Stutters
<1>4. CASE since # -1
  <2>1. since' = since /\ delivered' = delivered
    BY <1>4 DEF Start
  <2>2. Owed' = Owed
    BY <1>1, <2>1, OwedStays
  <2> QED
    BY <1>2, <2>2, Stutters
<1> QED
  BY <1>3, <1>4


\* Pending entries stay pending when another consumer takes them over.
LEMMA ReclaimContract ==
    ASSUME StreamInv, NEW c \in Consumer, Reclaim(c)
    PROVE  [Contract!Next]_(Contract!vars)
<1>1. UNCHANGED <<published, trim, since, delivered, applied, failed>>
  BY DEF Reclaim, ledger
<1>2. PICK claimed \in SUBSET Entry :
        /\ \A e \in claimed : owner[e] # Nobody
        /\ owner' = [e \in Entry |-> IF e \in claimed THEN c ELSE owner[e]]
  <2> DEFINE pending == {e \in Entry : owner[e] # Nobody /\ e >= cursor[c]}
             taken == Oldest(pending \cap stale, BatchCount)
  <2>1. owner' = [e \in Entry |-> IF e \in taken THEN c ELSE owner[e]]
    BY DEF Reclaim
  <2>2. taken \in SUBSET Entry /\ \A e \in taken : owner[e] # Nobody
    BY DEF Oldest
  <2> HIDE DEF taken
  <2> QED
    BY <2>1, <2>2
<1>3. c # Nobody /\ Ours \subseteq Entry
  BY StreamAssumption
<1>4. \A e \in Ours : (owner'[e] = Nobody) <=> (owner[e] = Nobody)
  BY <1>2, <1>3
<1> QED
  BY <1>1, <1>4, OwedStays, HandedStays, Stutters

\* Only entries the stream has dropped are passed over by a delivery.
LEMMA DeliverContract ==
    ASSUME StreamInv, NEW c \in Consumer, Deliver(c), UNCHANGED <<applied, failed>>
    PROVE  [Contract!Next]_(Contract!vars)
<1> DEFINE sent == Oldest(Unread, BatchCount)
<1>1. /\ sent \in SUBSET Entry /\ delivered' \in sent
      /\ \A e \in sent : delivered < e /\ e <= delivered' /\ e <= published /\ trim < e
      /\ \A e \in Entry : delivered < e /\ e <= delivered' => e \in sent \/ e <= trim
      /\ owner' = [e \in Entry |-> IF e \in sent THEN c ELSE owner[e]]
      /\ UNCHANGED <<published, trim, since, stale>>
  BY Delivered
<1> HIDE DEF sent
<1>2. c # Nobody /\ Ours \subseteq Entry /\ Ours \subseteq Nat
  BY StreamAssumption DEF Entry
<1>3. \A e \in Entry : owner'[e] = IF e \in sent THEN c ELSE owner[e]
  BY <1>1
<1>4. delivered' \in Nat /\ delivered \in Int
  BY <1>1, ServerNumbers, StreamAssumption DEF Entry
<1>5. HandedOver' = HandedOver
  BY <1>1, HandedStays
<1>6. ASSUME NEW e \in Ours, Acked(e)
      PROVE  Acked(e)'
  <2>1. e <= delivered /\ owner[e] = Nobody /\ e \notin sent
    BY <1>1, <1>2, <1>4, <1>6 DEF Acked
  <2>2. delivered <= delivered'
    BY <1>1, <1>4
  <2>3. e <= delivered'
    BY <1>2, <1>4, <2>1, <2>2
  <2> QED
    BY <1>1, <1>2, <1>3, <1>6, <2>1, <2>3 DEF Acked
<1>7. ASSUME NEW e \in Ours, Acked(e)', ~Acked(e)
      PROVE  e <= trim
  <2>1. /\ e > since /\ since # -1 /\ e <= delivered' /\ owner'[e] = Nobody
    BY <1>1, <1>7 DEF Acked
  <2>2. e \notin sent /\ owner[e] = Nobody
    BY <1>2, <1>3, <2>1
  <2>3. delivered < e
    BY <1>2, <1>4, <1>7, <2>1, <2>2 DEF Acked
  <2> QED
    BY <1>1, <1>2, <2>1, <2>2, <2>3
<1>8. Owed' \subseteq Owed
  BY <1>1, <1>6 DEF Owed
<1>9. Owed \ Owed' \subseteq HandedOver
  BY <1>1, <1>7 DEF Owed, HandedOver
<1> QED
  BY <1>5, <1>8, <1>9, Forgets

LEMMA WriteContract ==
    ASSUME StreamInv, NEW c \in Consumer, Apply(c) \/ ApplyFails(c)
    PROVE  [Contract!Next]_(Contract!vars)
<1> DEFINE id == Head(batch[c]).id
<1>1. /\ pc[c] = "yield" /\ Head(batch[c]).ours
      /\ UNCHANGED <<published, trim, since, delivered, owner>>
      /\ \/ applied' = applied \cup {id} /\ failed' = failed
         \/ applied' = applied /\ failed' = failed \cup {id}
  BY DEF Apply, ApplyFails, server
<1>2. id \in Ours
  BY <1>1, HeadOfBatch DEF Truthful
<1> HIDE DEF id
<1>3. Owed' = Owed
  BY <1>1, OwedStays
<1>4. HandedOver' = HandedOver \cup {id}
  BY <1>1 DEF HandedOver
<1> QED
  BY <1>2, <1>3, <1>4, Handles

\* A message that may be acknowledged was handed over, or is none of this daemon's.
LEMMA XAckContract ==
    ASSUME StreamInv, NEW c \in Consumer, MayAck(c), XAck(Head(batch[c]).id),
           UNCHANGED <<applied, failed>>
    PROVE  [Contract!Next]_(Contract!vars)
<1>1. /\ Head(batch[c]) = batch[c][1] /\ Head(batch[c]).id \in Entry
      /\ Truthful(Head(batch[c]))
  BY HeadOfBatch DEF MayAck
<1>2. PICK id \in Entry : id = Head(batch[c]).id
  BY <1>1
<1>3. id \in Ours => id \in HandedOver
  <2>1. CASE pc[c] = "ack"
    <3>1. id \in applied \cup failed
      BY <1>1, <1>2, <2>1 DEF StreamInv, LocalInv, BatchInv
    <3> QED
      BY <3>1 DEF HandedOver
  <2>2. CASE ~Head(batch[c]).ours
    BY <1>1, <1>2, <2>2 DEF Truthful, HandedOver
  <2> QED
    BY <2>1, <2>2 DEF MayAck
<1>4. /\ owner' = [owner EXCEPT ![id] = Nobody]
      /\ UNCHANGED <<published, trim, since, delivered>>
  BY <1>2 DEF XAck
<1>5. \A e \in Entry : owner'[e] = IF e = id THEN Nobody ELSE owner[e]
  BY <1>4 DEF StreamInv, ServerInv
<1>6. HandedOver' = HandedOver
  BY <1>4, HandedStays
<1>7. Ours \subseteq Entry
  BY StreamAssumption
<1>8. Owed' \subseteq Owed /\ Owed \ Owed' \subseteq {id}
  BY <1>4, <1>5, <1>7 DEF Owed, Acked
<1>9. Owed \subseteq Ours
  BY DEF Owed
<1> QED
  BY <1>3, <1>6, <1>8, <1>9, Forgets

LEMMA InitContract == Init => Contract!Init
<1> SUFFICES ASSUME Init
             PROVE  Owed = {} /\ HandedOver = {}
  BY DEF Contract!Init, Owed, HandedOver
<1>1. Owed = {}
  BY DEF Init, Owed
<1>2. Ours \subseteq Nat \ {0}
  BY StreamAssumption DEF Entry
<1>3. trim = 0 /\ applied = {} /\ failed = {}
  BY DEF Init
<1>4. \A e \in Ours : ~(e <= trim)
  BY <1>2, <1>3
<1> QED
  BY <1>1, <1>3, <1>4 DEF HandedOver

LEMMA NextContract == StreamInv /\ [Next]_vars => [Contract!Next]_(Contract!vars)
<1> SUFFICES ASSUME StreamInv, [Next]_vars
             PROVE  [Contract!Next]_(Contract!vars)
  OBVIOUS
<1>1. CASE UNCHANGED <<server, applied, failed>>
  <2>1. UNCHANGED <<published, trim, since, delivered, owner, applied, failed>>
    BY <1>1 DEF server
  <2> QED
    BY <2>1, OwedStays, HandedStays, Stutters
<1>2. CASE UNCHANGED vars
  BY <1>1, <1>2 DEF vars, ledger
<1>3. ASSUME NEW e \in Entry, Age(e)
      PROVE  [Contract!Next]_(Contract!vars)
  <2>1. UNCHANGED <<published, trim, since, delivered, owner, applied, failed>>
    BY <1>3 DEF Age, ledger
  <2> QED
    BY <2>1, OwedStays, HandedStays, Stutters
<1>4. ASSUME NEW c \in Consumer, IntervalPasses(c) \/ Die(c)
      PROVE  [Contract!Next]_(Contract!vars)
  BY <1>1, <1>4 DEF IntervalPasses, Die, ledger
<1>5. ASSUME NEW c \in Consumer, Read(c) \/ ReadLost(c)
      PROVE  [Contract!Next]_(Contract!vars)
  <2>1. Deliver(c) /\ UNCHANGED <<applied, failed>>
    BY <1>5 DEF Read, ReadLost, ledger
  <2> QED
    BY <2>1, DeliverContract
<1>6. ASSUME NEW c \in Consumer, Ack(c) \/ ConnectionLost(c)
      PROVE  [Contract!Next]_(Contract!vars)
  <2>1. UNCHANGED <<applied, failed>>
    BY <1>6 DEF Ack, ConnectionLost, ledger
  <2>2. UNCHANGED server \/ (MayAck(c) /\ XAck(Head(batch[c]).id))
    BY <1>6 DEF Ack, ConnectionLost
  <2> QED
    BY <1>1, <2>1, <2>2, XAckContract
<1> QED
  BY <1>2, <1>3, <1>4, <1>5, <1>6, PublishContract, TrimContract, StartContract,
     ReclaimContract, WriteContract DEF Next, Run

\* The delivery contract's safety, for any number of entries, consumers and faults:
\* an entry published once the group exists is forgotten only after it was handed
\* to the ledger (or the stream's own cap has dropped it), and what was handed
\* over once never becomes owed again.
THEOREM ForgetsOnlyHandled == Spec => Contract!Init /\ [][Contract!Next]_(Contract!vars)
  BY InitStream, NextStream, InitContract, NextContract, PTL DEF Spec


-----------------------------------------------------------------------------
(* One consumer that runs without a fault.  It holds every pending entry   *)
(* in its batch, in stream order and behind the row it has written.        *)

Alone(c) == \A d \in Consumer \ {c} : pc[d] = "down"

Steady(c) ==
    /\ \A e \in Entry : owner[e] # Nobody => \E k \in DOMAIN batch[c] : batch[c][k].id = e
    /\ \A k, m \in DOMAIN batch[c] : k < m => batch[c][k].id < batch[c][m].id
    /\ \A k \in DOMAIN batch[c] :
        /\ batch[c][k].id <= delivered
        /\ row < batch[c][k].id \/ (k = 1 /\ pc[c] = "ack" /\ row <= batch[c][k].id)
    /\ row <= delivered \/ row = 0
    /\ \A e \in applied : e <= row

SteadyInv == faults = 0 => \A c \in Consumer : Alone(c) => Steady(c)


LEMMA BatchIds ==
    ASSUME StreamInv, NEW c \in Consumer
    PROVE  /\ Len(batch[c]) \in Nat /\ DOMAIN batch[c] = 1 .. Len(batch[c])
           /\ \A k \in DOMAIN batch[c] : batch[c][k].id \in Nat \ {0}
<1>1. batch[c] \in Seq(Message)
  BY DEF StreamInv, LocalInv
<1>2. \A k \in DOMAIN batch[c] : batch[c][k] \in Message
  BY <1>1
<1>3. \A m \in Message : m.id \in Nat \ {0}
  BY StreamAssumption DEF Message, Entry
<1> QED
  BY <1>1, <1>2, <1>3

LEMMA LedgerNumbers ==
    ASSUME StreamInv
    PROVE  row \in Nat /\ faults \in Nat /\ \A e \in applied : e \in Nat
  BY StreamAssumption DEF StreamInv, LedgerInv, Entry

\* A step that leaves the batches, the pending entries and the row alone.
LEMMA SteadyStays ==
    ASSUME SteadyInv, UNCHANGED <<pc, batch, owner, delivered, applied, row, faults>>
    PROVE  SteadyInv'
  BY DEF SteadyInv, Alone, Steady

\* Only the consumer that is alone can have moved.
LEMMA SteadyStep ==
    ASSUME StreamInv, SteadyInv, NEW c \in Consumer, NEW v, v # "down",
           pc' = [pc EXCEPT ![c] = v], faults' = faults,
           faults = 0 /\ Alone(c) /\ Steady(c) => Steady(c)'
    PROVE  SteadyInv'
<1> SUFFICES ASSUME faults = 0, NEW d \in Consumer, \A q \in Consumer \ {d} : pc'[q] = "down"
             PROVE  Steady(d)'
  BY DEF SteadyInv, Alone
<1>1. pc'[c] = v /\ \A q \in Consumer : q # c => pc'[q] = pc[q]
  BY DEF StreamInv, LocalInv
<1>2. d = c
  BY <1>1
<1>3. Alone(c)
  BY <1>1, <1>2 DEF Alone
<1> QED
  BY <1>2, <1>3 DEF SteadyInv

\* A consumer without a batch: nothing is pending.
LEMMA NothingPending ==
    ASSUME NEW c \in Consumer, Steady(c), batch[c] = <<>>
    PROVE  \A e \in Entry : owner[e] = Nobody
  BY DEF Steady

LEMMA SteadyStart ==
    ASSUME StreamInv, SteadyInv, NEW c \in Consumer, Start(c)
    PROVE  SteadyInv'
<1>1. /\ pc' = [pc EXCEPT ![c] = "reclaim"] /\ pc[c] = "down"
      /\ UNCHANGED <<owner, batch, applied, row, faults>>
  BY DEF Start, ledger
<1>2. batch[c] = <<>>
  BY <1>1, EmptyHanded
<1>3. delivered <= delivered' /\ delivered' \in Int
  BY ServerNumbers DEF Start
<1>4. ASSUME Steady(c)
      PROVE  Steady(c)'
  <2>1. \A e \in Entry : owner'[e] = Nobody
    BY <1>1, <1>2, <1>4, NothingPending
  <2>2. DOMAIN batch'[c] = {}
    BY <1>1, <1>2
  <2>3. row' <= delivered' \/ row' = 0
    BY <1>1, <1>3, <1>4, ServerNumbers, LedgerNumbers DEF Steady
  <2> QED
    BY <1>1, <1>4, <2>1, <2>2, <2>3 DEF Steady
<1> QED
  BY <1>1, <1>4, SteadyStep

LEMMA SteadyReclaim ==
    ASSUME StreamInv, SteadyInv, NEW c \in Consumer, Reclaim(c)
    PROVE  SteadyInv'
<1> DEFINE pending == {e \in Entry : owner[e] # Nobody /\ e >= cursor[c]}
           claimed == Oldest(pending \cap stale, BatchCount)
           v == IF claimed = {} THEN "read" ELSE "yield"
<1>1. /\ pc[c] = "reclaim" /\ pc' = [pc EXCEPT ![c] = v]
      /\ owner' = [e \in Entry |-> IF e \in claimed THEN c ELSE owner[e]]
      /\ batch' = [batch EXCEPT ![c] = Messages(claimed)]
      /\ UNCHANGED <<delivered, applied, row, faults>>
  BY DEF Reclaim, ledger
<1>2. claimed \in SUBSET Entry /\ \A e \in claimed : owner[e] # Nobody
  BY DEF Oldest
<1> HIDE DEF claimed
<1>3. v # "down" /\ batch[c] = <<>>
  BY <1>1, EmptyHanded
<1>4. ASSUME Steady(c)
      PROVE  Steady(c)'
  <2>1. \A e \in Entry : owner[e] = Nobody
    BY <1>3, <1>4, NothingPending
  <2>2. claimed = {}
    BY <1>2, <2>1
  <2>3. Messages(claimed) = <<>>
    BY <1>2, <2>2, MessagesList
  <2>4. batch'[c] = <<>> /\ DOMAIN batch'[c] = {}
    BY <1>1, <2>3 DEF StreamInv, LocalInv
  <2>5. \A e \in Entry : owner'[e] = Nobody
    BY <1>1, <2>1, <2>2
  <2> QED
    BY <1>1, <1>4, <2>4, <2>5 DEF Steady
<1> QED
  BY <1>1, <1>3, <1>4, SteadyStep

LEMMA SteadyInterval ==
    ASSUME StreamInv, SteadyInv, NEW c \in Consumer, IntervalPasses(c)
    PROVE  SteadyInv'
<1>1. /\ pc[c] = "read" /\ pc' = [pc EXCEPT ![c] = "reclaim"]
      /\ UNCHANGED <<owner, delivered, batch, applied, row, faults>>
  BY DEF IntervalPasses, server, ledger
<1>2. batch[c] = <<>> /\ DOMAIN batch[c] = {}
  BY <1>1, EmptyHanded
<1>3. Steady(c) => Steady(c)'
  BY <1>1, <1>2 DEF Steady
<1> QED
  BY <1>1, <1>3, SteadyStep


\* The next entries are listed behind everything that was written.
LEMMA SteadyRead ==
    ASSUME StreamInv, SteadyInv, NEW c \in Consumer, Read(c)
    PROVE  SteadyInv'
<1> DEFINE sent == Oldest(Unread, BatchCount)
           n == Cardinality(sent)
           s == InOrder(sent)
           b == Messages(sent)
<1>1. /\ Deliver(c) /\ pc[c] = "read" /\ pc' = [pc EXCEPT ![c] = "yield"]
      /\ batch' = [batch EXCEPT ![c] = b]
      /\ UNCHANGED <<applied, row, faults>>
  BY DEF Read, Deliver, ledger
<1>2. /\ sent \in SUBSET Entry /\ delivered' \in sent
      /\ \A e \in sent : delivered < e /\ e <= delivered'
      /\ owner' = [e \in Entry |-> IF e \in sent THEN c ELSE owner[e]]
  BY <1>1, Delivered
<1> HIDE DEF sent
<1>3. batch[c] = <<>> /\ batch'[c] = b
  BY <1>1, EmptyHanded DEF StreamInv, LocalInv
<1>4. b \in Seq(Message) /\ Len(b) = n /\ \A k \in 1 .. n : b[k] = Parsed(s[k], s[k] > trim)
  BY <1>2, MessagesList
<1>5. DOMAIN b = 1 .. n
  BY <1>4
<1>6. /\ s \in [1 .. n -> sent] /\ Rising(s)
      /\ \A e \in sent : \E k \in 1 .. n : s[k] = e
  BY <1>2, InOrderLists
<1>7. \A k \in 1 .. n : b[k].id = s[k]
  BY <1>4 DEF Parsed
<1>8. \A k \in 1 .. n : s[k] \in sent
  BY <1>6
<1>9. \A k, m \in 1 .. n : k < m => s[k] < s[m]
  BY <1>6 DEF Rising
<1>10. \A e \in sent : e \in Nat /\ e > 0
  BY <1>2, StreamAssumption DEF Entry
<1>11. delivered' \in Nat
  BY <1>2, <1>10
<1> HIDE DEF b, s, n
<1>12. ASSUME Steady(c)
       PROVE  Steady(c)'
  <2>1. \A e \in Entry : owner'[e] # Nobody => \E k \in DOMAIN batch'[c] : batch'[c][k].id = e
    <3>1. \A e \in Entry : owner[e] = Nobody
      BY <1>3, <1>12, NothingPending
    <3>2. \A e \in Entry : owner'[e] # Nobody => e \in sent
      BY <1>2, <3>1
    <3> QED
      BY <1>3, <1>5, <1>6, <1>7, <3>2
  <2>2. \A k, m \in DOMAIN batch'[c] : k < m => batch'[c][k].id < batch'[c][m].id
    BY <1>3, <1>5, <1>7, <1>9
  <2>3. \A e \in sent : row < e
    <3> SUFFICES ASSUME NEW e \in sent
                 PROVE  row < e
      OBVIOUS
    <3>1. row <= delivered \/ row = 0
      BY <1>12 DEF Steady
    <3>2. delivered < e /\ e \in Nat /\ e > 0
      BY <1>2, <1>10
    <3> QED
      BY <3>1, <3>2, ServerNumbers, LedgerNumbers
  <2>4. \A k \in DOMAIN batch'[c] : batch'[c][k].id <= delivered' /\ row < batch'[c][k].id
    BY <1>2, <1>3, <1>5, <1>7, <1>8, <2>3
  <2>5. row <= delivered'
    BY <1>2, <1>11, <2>3, LedgerNumbers
  <2>6. \A e \in applied : e <= row
    BY <1>12 DEF Steady
  <2> QED
    BY <1>1, <2>1, <2>2, <2>4, <2>5, <2>6 DEF Steady
<1> QED
  BY <1>1, <1>12, SteadyStep

\* The message being written lies ahead of the row, and of what was written.
LEMMA SteadyHead ==
    ASSUME StreamInv, NEW c \in Consumer, Steady(c), pc[c] = "yield"
    PROVE  /\ row < batch[c][1].id /\ batch[c][1].id <= delivered
           /\ batch[c][1].id \notin applied /\ Head(batch[c]) = batch[c][1]
<1>1. 1 \in DOMAIN batch[c] /\ Head(batch[c]) = batch[c][1]
  BY HeadOfBatch
<1>2. row < batch[c][1].id /\ batch[c][1].id <= delivered
  BY <1>1 DEF Steady
<1>3. batch[c][1].id \notin applied
  <2>1. batch[c][1].id \in Nat
    BY <1>1, BatchIds
  <2> QED
    BY <1>2, <2>1, LedgerNumbers DEF Steady
<1> QED
  BY <1>1, <1>2, <1>3

LEMMA SteadyWrite ==
    ASSUME StreamInv, SteadyInv, NEW c \in Consumer, Apply(c) \/ ApplyFails(c)
    PROVE  SteadyInv'
<1> DEFINE id == batch[c][1].id
<1>1. /\ pc[c] = "yield" /\ pc' = [pc EXCEPT ![c] = "ack"]
      /\ UNCHANGED <<owner, delivered, batch, faults>>
      /\ Head(batch[c]) = batch[c][1]
      /\ \/ applied' = applied \cup {id} /\ row' = id
         \/ applied' = applied /\ row' = row
  BY HeadOfBatch DEF Apply, ApplyFails, server
<1>2. pc'[c] = "ack"
  BY <1>1 DEF StreamInv, LocalInv
<1>3. ASSUME Steady(c)
      PROVE  Steady(c)'
  <2>1. row < id /\ id <= delivered
    BY <1>1, <1>3, SteadyHead
  <2>2. /\ Len(batch[c]) \in Nat /\ DOMAIN batch[c] = 1 .. Len(batch[c])
        /\ \A k \in DOMAIN batch[c] : batch[c][k].id \in Nat
        /\ 1 \in DOMAIN batch[c]
    BY <1>1, BatchIds, HeadOfBatch
  <2>3. row \in Nat /\ id \in Nat /\ row' \in Nat /\ row <= row' /\ row' <= id
    BY <1>1, <2>1, <2>2, LedgerNumbers
  <2>4. ASSUME NEW k \in DOMAIN batch[c]
        PROVE  /\ batch[c][k].id <= delivered
               /\ row' < batch[c][k].id \/ (k = 1 /\ row' <= batch[c][k].id)
    <3>1. CASE k = 1
      BY <2>1, <2>3, <3>1
    <3>2. CASE k # 1
      <4>1. 1 < k
        BY <2>2, <3>2
      <4>2. id < batch[c][k].id /\ batch[c][k].id \in Nat
        BY <1>3, <2>2, <4>1 DEF Steady
      <4>3. batch[c][k].id <= delivered
        BY <1>3 DEF Steady
      <4> QED
        BY <2>3, <4>2, <4>3
    <3> QED
      BY <3>1, <3>2
  <2>5. row' <= delivered \/ row' = 0
    BY <1>1, <1>3, <2>1 DEF Steady
  <2>6. \A e \in applied' : e <= row'
    <3> SUFFICES ASSUME NEW e \in applied'
                 PROVE  e <= row'
      OBVIOUS
    <3>1. CASE e \in applied
      <4>1. e <= row /\ e \in Nat
        BY <1>3, <3>1, LedgerNumbers DEF Steady
      <4> QED
        BY <2>3, <4>1
    <3>2. CASE e \notin applied
      BY <1>1, <2>3, <3>2
    <3> QED
      BY <3>1, <3>2
  <2> QED
    BY <1>1, <1>2, <1>3, <2>4, <2>5, <2>6 DEF Steady
<1> QED
  BY <1>1, <1>3, SteadyStep

LEMMA SteadyAck ==
    ASSUME StreamInv, SteadyInv, NEW c \in Consumer, Ack(c)
    PROVE  SteadyInv'
<1> DEFINE id == batch[c][1].id
           b == Tail(batch[c])
           v == IF Len(batch[c]) > 1 THEN "yield"
                ELSE IF source[c] = "old" /\ cursor[c] # 0 THEN "reclaim" ELSE "read"
<1>1. /\ pc[c] \in {"yield", "ack"} /\ v # "down" /\ pc' = [pc EXCEPT ![c] = v]
      /\ UNCHANGED <<delivered, applied, row, faults>>
  BY DEF Ack, MayAck, XAck, ledger
<1>2. batch'[c] = b
  BY DEF Ack, StreamInv, LocalInv
<1>3. \A e \in Entry : owner'[e] = IF e = id THEN Nobody ELSE owner[e]
  <2>1. Head(batch[c]) = batch[c][1]
    BY <1>1, HeadOfBatch
  <2> QED
    BY <2>1 DEF Ack, XAck, StreamInv, ServerInv
<1>4. /\ DOMAIN b = 1 .. Len(batch[c]) - 1
      /\ \A k \in DOMAIN b : k \in Nat /\ k + 1 \in DOMAIN batch[c] /\ b[k] = batch[c][k + 1]
  <2>1. batch[c] \in Seq(Message) /\ batch[c] # <<>>
    BY <1>1, HeadOfBatch
  <2>2. DOMAIN b = 1 .. Len(batch[c]) - 1
    BY <2>1
  <2> QED
    BY <1>1, <2>2, TailOfBatch
<1>5. /\ Len(batch[c]) \in Nat /\ DOMAIN batch[c] = 1 .. Len(batch[c])
      /\ \A k \in DOMAIN batch[c] : batch[c][k].id \in Nat
      /\ 1 \in DOMAIN batch[c]
  BY <1>1, BatchIds, HeadOfBatch
<1> HIDE DEF b, v
<1>6. ASSUME Steady(c)
      PROVE  Steady(c)'
  <2>1. ASSUME NEW e \in Entry, owner'[e] # Nobody
        PROVE  \E k \in DOMAIN b : b[k].id = e
    <3>1. e # id /\ owner[e] # Nobody
      BY <1>3, <2>1
    <3>2. PICK k \in DOMAIN batch[c] : batch[c][k].id = e
      BY <1>6, <3>1 DEF Steady
    <3>3. k # 1 /\ k \in 1 .. Len(batch[c])
      BY <1>5, <3>1, <3>2
    <3>4. k - 1 \in DOMAIN b /\ (k - 1) + 1 = k
      BY <1>4, <1>5, <3>3
    <3> QED
      BY <1>4, <3>2, <3>4
  <2>2. ASSUME NEW k \in DOMAIN b, NEW m \in DOMAIN b, k < m
        PROVE  b[k].id < b[m].id
    <3>1. k + 1 < m + 1 /\ k + 1 \in DOMAIN batch[c] /\ m + 1 \in DOMAIN batch[c]
      BY <1>4, <2>2
    <3> QED
      BY <1>4, <1>6, <3>1 DEF Steady
  <2>3. ASSUME NEW k \in DOMAIN b
        PROVE  b[k].id <= delivered /\ row < b[k].id
    <3>1. k + 1 \in DOMAIN batch[c] /\ k + 1 # 1 /\ b[k] = batch[c][k + 1]
      BY <1>4, <1>5
    <3> QED
      BY <1>6, <3>1 DEF Steady
  <2> QED
    BY <1>1, <1>2, <1>6, <2>1, <2>2, <2>3 DEF Steady
<1> QED
  BY <1>1, <1>6, SteadyStep

LEMMA InitSteady == Init => SteadyInv
  BY StreamAssumption DEF Init, SteadyInv, Steady

LEMMA NextSteady ==
    ASSUME StreamInv, SteadyInv, [Next]_vars
    PROVE  SteadyInv'
<1>1. CASE UNCHANGED <<pc, batch, owner, delivered, applied, row, faults>>
  BY <1>1, SteadyStays
<1>2. CASE UNCHANGED vars
  BY <1>1, <1>2 DEF vars, server, local, ledger
<1>3. CASE Publish \/ Trim
  BY <1>1, <1>3 DEF Publish, Trim, local, ledger
<1>4. ASSUME NEW e \in Entry, Age(e)
      PROVE  SteadyInv'
  BY <1>1, <1>4 DEF Age, local, ledger
<1>5. ASSUME NEW c \in Consumer, ReadLost(c) \/ ConnectionLost(c) \/ Die(c)
      PROVE  SteadyInv'
  <2>1. faults' = faults + 1
    BY <1>5 DEF ReadLost, ConnectionLost, Die
  <2>2. faults' # 0
    BY <2>1, LedgerNumbers
  <2> QED
    BY <2>2 DEF SteadyInv
<1> QED
  BY <1>2, <1>3, <1>4, <1>5, SteadyStart, SteadyReclaim, SteadyInterval, SteadyRead,
     SteadyWrite, SteadyAck DEF Next, Run

\* Only writing a message moves the row or adds to what was written.
LEMMA OnlyWritesMove ==
    ASSUME Next, ~ \E c \in Consumer : Apply(c)
    PROVE  UNCHANGED <<applied, row>>
<1>1. ASSUME NEW c \in Consumer,
             Start(c) \/ Reclaim(c) \/ IntervalPasses(c) \/ Read(c) \/ Ack(c)
             \/ ApplyFails(c) \/ ReadLost(c) \/ ConnectionLost(c) \/ Die(c)
      PROVE  UNCHANGED <<applied, row>>
  BY <1>1 DEF Start, Reclaim, IntervalPasses, Read, Ack, ApplyFails, ReadLost,
              ConnectionLost, Die, ledger
<1>2. ASSUME NEW e \in Entry, Age(e)
      PROVE  UNCHANGED <<applied, row>>
  BY <1>2 DEF Age, ledger
<1>3. ASSUME Publish \/ Trim
      PROVE  UNCHANGED <<applied, row>>
  BY <1>3 DEF Publish, Trim, ledger
<1> QED
  BY <1>1, <1>2, <1>3 DEF Next, Run

LEMMA SteadyMoves ==
    ASSUME StreamInv, SteadyInv, [Next]_vars,
           NEW c \in Consumer, \A d \in Consumer \ {c} : pc'[d] = "down", faults' = 0
    PROVE  row' >= row /\ (applied' # applied \/ UNCHANGED row)
<1>1. row \in Nat
  BY LedgerNumbers
<1>2. CASE UNCHANGED <<applied, row>>
  BY <1>1, <1>2
<1>3. ASSUME NEW d \in Consumer, Apply(d)
      PROVE  row' >= row /\ applied' # applied
  <2>1. /\ pc[d] = "yield" /\ pc' = [pc EXCEPT ![d] = "ack"] /\ faults = 0
        /\ applied' = applied \cup {Head(batch[d]).id} /\ row' = Head(batch[d]).id
    BY <1>3 DEF Apply
  <2>2. pc'[d] = "ack" /\ \A q \in Consumer : q # d => pc'[q] = pc[q]
    BY <2>1 DEF StreamInv, LocalInv
  <2>3. d = c
    BY <2>2
  <2>4. Alone(d)
    BY <2>2, <2>3 DEF Alone
  <2>5. Steady(d)
    BY <2>1, <2>4 DEF SteadyInv
  <2>6. row < Head(batch[d]).id /\ Head(batch[d]).id \notin applied
    BY <2>1, <2>5, SteadyHead
  <2>7. batch[d][1].id \in Nat /\ Head(batch[d]) = batch[d][1]
    BY <2>1, BatchIds, HeadOfBatch
  <2> QED
    BY <1>1, <2>1, <2>6, <2>7
<1>4. CASE UNCHANGED vars
  BY <1>2, <1>4 DEF vars, ledger
<1> QED
  BY <1>2, <1>3, <1>4, OnlyWritesMove

\* A consumer that runs alone and without a fault writes every message once and in
\* stream order: the order's row never falls back to an older entry, whatever the
\* batch size, the idle timeout and the stream's cap.
THEOREM RowOnlyMovesForward == Spec => SteadyOrder
<1>1. StreamInv /\ SteadyInv /\ [Next]_vars
        => [(\E c \in Consumer : \A d \in Consumer \ {c} : pc'[d] = "down") /\ faults' = 0
               => row' >= row /\ (applied' # applied \/ UNCHANGED row)]_vars
  BY SteadyMoves
<1> QED
  BY <1>1, InitStream, NextStream, InitSteady, NextSteady, PTL DEF Spec, SteadyOrder
=============================================================================
